---- MODULE Spec2Model ----
(***************************************************************************)
(* Model of the XPU experience store and its per-session handler:          *)
(*   build_agent/xpu/xpu_vector_store.py  (XpuVectorStore, create_xpu_table)*)
(*   build_agent/utils/xpu_handler.py     (XpuHandler)                     *)
(*   build_agent/xpu/xpu_adapter.py       (entries, atoms, rendering)      *)
(*                                                                         *)
(* Strings that the code inspects character by character (observations,   *)
(* error keywords) are sequences of one-character strings.  Similarities   *)
(* are cosine similarities in thousandths.                                 *)
(***************************************************************************)
EXTENDS Integers, Sequences, FiniteSets, TLC

VARIABLES
    telemetry_column,  \* does table xpu_entries have a telemetry column
    xpu_entries,       \* the committed rows of table xpu_entries
    vector_store,      \* XpuHandler.vector_store is set (store configured)
    last_query,        \* XpuHandler.last_query
    session_used_ids,  \* XpuHandler.session_used_ids
    call,              \* the last completed call: operation, arguments, result
    pc,                \* per session: position inside a store operation
    op,                \* per session: the store operation in progress
    txn,               \* per session: rows written by its open transaction
    pool_used,         \* connections checked out of the pool, per session
    done_calls         \* per id and field: completed increment calls naming it

vars == <<telemetry_column, xpu_entries, vector_store, last_query,
          session_used_ids, call, pc, op, txn, pool_used, done_calls>>

handler_vars == <<vector_store, last_query, session_used_ids>>
conc_vars == <<pc, op, txn, pool_used, done_calls>>

----------------------------------------------------------------------------
(* Bounds of the model *)

\* telemetry counters are followed up to this value
MaxCount == 1
\* id lists passed to the telemetry operations have at most this length
MaxList == 2

----------------------------------------------------------------------------
(* Program constants *)

\* configured embedding dimension (EMBEDDING_DIM environment variable)
EMBEDDING_DIM == 2
\* retrieve_hints: max_chars
max_chars == 4000
\* retrieve_hints: k of the store search
SEARCH_K == 3
\* retrieve_hints: min_similarity of the store search (0.3), in thousandths
MIN_SIMILARITY == 300
\* ThreadedConnectionPool(1, 5, ...)
POOL_MAX == 5

None == "None"
\* SQL NULL in a JSONB column
NULL == [null |-> TRUE]
\* XpuHandler.last_query: None, or the snippet it holds
NO_QUERY == <<>>
Memo(log_snippet) == <<log_snippet>>
\* Python's `not v` for the argument values that occur
Falsy_OnlyNone(v) == v = None

Falsy(v) == v = None \/ v = ""
\* get_entry's None
NOT_FOUND == [id |-> None]
Fields == {"hits", "successes", "failures"}
Ids == {"xpu_1", "xpu_2"}

Range(s) == {s[i] : i \in 1..Len(s)}
One(b) == IF b THEN 1 ELSE 0

----------------------------------------------------------------------------
(* Text helpers *)

Whitespace == {" ", "\n", "\t", "\r"}

Lower(c) ==
    CASE c = "A" -> "a" [] c = "B" -> "b" [] c = "C" -> "c" [] c = "D" -> "d"
      [] c = "E" -> "e" [] c = "F" -> "f" [] c = "G" -> "g" [] c = "H" -> "h"
      [] c = "I" -> "i" [] c = "J" -> "j" [] c = "K" -> "k" [] c = "L" -> "l"
      [] c = "M" -> "m" [] c = "N" -> "n" [] c = "O" -> "o" [] c = "P" -> "p"
      [] c = "Q" -> "q" [] c = "R" -> "r" [] c = "S" -> "s" [] c = "T" -> "t"
      [] c = "U" -> "u" [] c = "V" -> "v" [] c = "W" -> "w" [] c = "X" -> "x"
      [] c = "Y" -> "y" [] c = "Z" -> "z" [] OTHER -> c

LowerStr(s) == [i \in 1..Len(s) |-> Lower(s[i])]

\* Python's `k in s` on strings
Contains(s, k) ==
    \E i \in 0..(Len(s) - Len(k)) : \A j \in 1..Len(k) : s[i + j] = k[j]

\* Python's str.strip()
Strip(s) ==
    LET keep == {i \in 1..Len(s) : s[i] \notin Whitespace}
    IN  IF keep = {} THEN <<>>
        ELSE LET lo == CHOOSE i \in keep : \A j \in keep : i <= j
                 hi == CHOOSE i \in keep :
                           \A j \in (i + 1)..Len(s) : s[j] \in Whitespace
             IN  SubSeq(s, lo, hi)

TRUNCATED_MARKER ==
    <<"\n", ".", ".", ".", " ", "[", "T", "R", "U", "N", "C", "A", "T", "E",
      "D", "]", " ", ".", ".", ".", "\n">>

\* a cut whose tail starts at max_chars // 2 instead of ending the text
LogSnippet_TailFromHalf(sandbox_res) ==
    LET s == Strip(sandbox_res)
        half == max_chars \div 2
    IN  IF Len(s) > max_chars
        THEN SubSeq(s, 1, half) \o TRUNCATED_MARKER
                 \o SubSeq(s, half + 1, Len(s))
        ELSE s

\* retrieve_hints step 1: strip, then keep head and tail around the marker
LogSnippet(sandbox_res) ==
    LET s == Strip(sandbox_res)
        half == max_chars \div 2
    IN  IF Len(s) > max_chars
        THEN SubSeq(s, 1, half) \o TRUNCATED_MARKER
                 \o SubSeq(s, Len(s) - half + 1, Len(s))
        ELSE s

XPU_ERROR_KEYWORDS == {
    <<"m", "o", "d", "u", "l", "e", " ", "n", "o", "t", " ", "f", "o", "u", "n", "d">>,
    <<"m", "o", "d", "u", "l", "e", "n", "o", "t", "f", "o", "u", "n", "d", "e", "r", "r", "o", "r">>,
    <<"i", "m", "p", "o", "r", "t", "e", "r", "r", "o", "r">>,
    <<"n", "o", " ", "m", "o", "d", "u", "l", "e", " ", "n", "a", "m", "e", "d">>,
    <<"c", "o", "u", "l", "d", " ", "n", "o", "t", " ", "f", "i", "n", "d", " ", "a", " ", "v", "e", "r", "s", "i", "o", "n">>,
    <<"c", "o", "m", "m", "a", "n", "d", " ", "n", "o", "t", " ", "f", "o", "u", "n", "d">>,
    <<"p", "e", "r", "m", "i", "s", "s", "i", "o", "n", " ", "d", "e", "n", "i", "e", "d">>,
    <<"e", "r", "r", "o", "r", ":">>,
    <<"f", "a", "i", "l", "e", "d">>,
    <<"t", "r", "a", "c", "e", "b", "a", "c", "k">>,
    <<"e", "x", "c", "e", "p", "t", "i", "o", "n">> }

_check_has_error(text) ==
    IF text = <<>> THEN FALSE
    ELSE \E keyword \in XPU_ERROR_KEYWORDS : Contains(LowerStr(text), keyword)

\* the observations handed to retrieve_hints
S_EMPTY == <<>>
S_OK == <<"o", "k">>
S_ERR == <<"E", "r", "r", "o", "r", ":", " ", "x">>
S_ERR_PADDED == <<" ", "E", "r", "r", "o", "r", ":", " ", "x", "\n">>
S_FAILED == <<"F", "A", "I", "L", "E", "D">>
Observations == {S_EMPTY, S_OK, S_ERR, S_ERR_PADDED, S_FAILED}

----------------------------------------------------------------------------
(* Entries (xpu_adapter.py) *)

\* an XpuAtom object
XpuAtom(name, args) == [class |-> "XpuAtom", name |-> name, args |-> args]

\* an XpuEntry object; telemetry takes the dataclass default
XpuEntry(id, context, signals, advice_nl, atoms) ==
    [id |-> id, context |-> context, signals |-> signals,
     advice_nl |-> advice_nl, atoms |-> atoms,
     telemetry |-> [hits |-> 0, successes |-> 0, failures |-> 0]]

\* the content of the entries that are indexed: JSON values, as
\* load_xpu_entries reads them from a JSONL file
CONTENT_PIP ==
    [context |-> [lang |-> "python", tools |-> <<"pip">>],
     signals |-> [keywords |-> <<"ModuleNotFoundError">>],
     advice_nl |-> <<"pin numpy">>,
     atoms |-> <<XpuAtom("pip_pin", [name |-> "numpy", spec |-> "==1.26"])>>]
CONTENT_UMASK ==
    [context |-> [lang |-> "python", tools |-> <<>>],
     signals |-> [keywords |-> <<"Permission denied">>],
     advice_nl |-> <<"relax umask", "retry">>,
     atoms |-> <<XpuAtom("set_umask", [value |-> "022"]),
                 XpuAtom("set_env", [key |-> "HOME", value |-> "/tmp"])>>]
CONTENT_JAVA ==
    [context |-> [lang |-> "java", tools |-> <<"mvn">>],
     signals |-> [keywords |-> <<>>],
     advice_nl |-> <<"use jdk 17">>,
     atoms |-> <<>>]
Contents == {CONTENT_PIP, CONTENT_UMASK, CONTENT_JAVA}

EntryOf(id, c) == XpuEntry(id, c.context, c.signals, c.advice_nl, c.atoms)

Entries == {EntryOf(id, c) : id \in Ids, c \in Contents}

\* embeddings stored with entries, and vectors of a wrong length
Embeddings == {<<1, 0>>, <<0, 1>>}
BadEmbeddings == {<<1>>}
\* what text_to_embedding returns for an observation
QueryEmbeddings == {<<1, 0>>, <<1, 1>>, <<2, 1>>}
\* a vector of the right length whose components are all 0.0
ZeroEmbeddings == {<<0, 0>>}

----------------------------------------------------------------------------
(* Cosine similarity: 1 - (embedding <=> query), in thousandths *)

Dot(a, b) ==
    LET RECURSIVE Sum(_)
        Sum(i) == IF i = 0 THEN 0 ELSE a[i] * b[i] + Sum(i - 1)
    IN  Sum(Len(a))

ISqrt(x) == CHOOSE r \in 0..1000 : r * r <= x /\ (r + 1) * (r + 1) > x

\* the float NaN: what pgvector's cosine distance is when a vector has norm 0
NaN == 9999

CosSim1000(a, b) ==
    LET d == Dot(a, b)
        n == Dot(a, a) * Dot(b, b)
    IN  IF n = 0 THEN NaN
        ELSE LET m == ISqrt((1000000 * d * d) \div n)
             IN  IF d >= 0 THEN m ELSE 0 - m

Vectors == Embeddings \cup QueryEmbeddings \cup ZeroEmbeddings

SimTable == [a \in Vectors |-> [b \in Vectors |-> CosSim1000(a, b)]]

\* PostgreSQL's >= and <= on float8: NaN is greater than every other value
SqlGe(x, y) == x = NaN \/ (y # NaN /\ x >= y)
SqlLe(x, y) == SqlGe(y, x)
\* Python's >= on floats: every comparison with nan is False
PyGe(x, y) == x # NaN /\ y # NaN /\ x >= y

Similarity(a, b) == SimTable[a][b]

\* embedding <=> query, the cosine distance
Distance(a, b) ==
    IF Similarity(a, b) = NaN THEN NaN ELSE 1000 - Similarity(a, b)

----------------------------------------------------------------------------
(* Table xpu_entries and the statements of XpuVectorStore *)

\* id lists, duplicates allowed
IdLists == UNION {[1..n -> Ids] : n \in 0..MaxList}

\* json.dumps([{"name": a.name, "args": a.args} for a in entry.atoms])
AtomsJson(atoms) ==
    [i \in 1..Len(atoms) |-> [name |-> atoms[i].name, args |-> atoms[i].args]]

\* the VALUES of upsert_entry's INSERT
InsertValues(entry, embedding) ==
    [id |-> entry.id, context |-> entry.context, signals |-> entry.signals,
     advice_nl |-> entry.advice_nl, atoms |-> AtomsJson(entry.atoms),
     embedding |-> embedding]

\* a new row: the statement names no telemetry, the column (if any) is NULL
InsertedRow(v) ==
    [id |-> v.id, context |-> v.context, signals |-> v.signals,
     advice_nl |-> v.advice_nl, atoms |-> v.atoms, embedding |-> v.embedding,
     telemetry |-> NULL]

\* a replace of the whole row instead of an update of five columns
OnConflictUpdate_ReplacesRow(row, excluded) == InsertedRow(excluded)

\* an update that leaves advice_nl and atoms of the stored row
OnConflictUpdate_KeepsAdvice(row, excluded) ==
    [row EXCEPT !.context = excluded.context,
                !.signals = excluded.signals,
                !.embedding = excluded.embedding]

\* an update that leaves the embedding of the stored row
OnConflictUpdate_KeepsEmbedding(row, excluded) ==
    [row EXCEPT !.context = excluded.context,
                !.signals = excluded.signals,
                !.advice_nl = excluded.advice_nl,
                !.atoms = excluded.atoms]

\* ON CONFLICT (id) DO UPDATE SET ... = EXCLUDED. ...
OnConflictUpdate(row, excluded) ==
    [row EXCEPT !.context = excluded.context,
                !.signals = excluded.signals,
                !.advice_nl = excluded.advice_nl,
                !.atoms = excluded.atoms,
                !.embedding = excluded.embedding]

\* INSERT ... ON CONFLICT (id) DO UPDATE, on the rows tbl
UpsertStatement(tbl, entry, embedding) ==
    LET v == InsertValues(entry, embedding)
    IN  IF \E r \in tbl : r.id = v.id
        THEN {IF r.id = v.id THEN OnConflictUpdate(r, v) ELSE r : r \in tbl}
        ELSE tbl \cup {InsertedRow(v)}

\* no check of the length of the vector
DimensionMismatch_Unchecked(embedding) == FALSE

\* len(embedding) != EMBEDDING_DIM
DimensionMismatch(embedding) == Len(embedding) # EMBEDDING_DIM

\* XpuVectorStore.upsert_entry as one call: what it raises, whether it took
\* a connection from the pool and gave it back, and the rows afterwards
upsert_entry(tbl, entry, embedding) ==
    IF DimensionMismatch(embedding)
    THEN [raised |-> "ValueError", acquired |-> FALSE, released |-> FALSE,
          table |-> tbl]
    ELSE [raised |-> None, acquired |-> TRUE, released |-> TRUE,
          table |-> UpsertStatement(tbl, entry, embedding)]

\* XpuVectorStore.get_entry: SELECT id, context, signals, advice_nl, atoms
get_entry(tbl, xpu_id) ==
    IF \E r \in tbl : r.id = xpu_id
    THEN LET row == CHOOSE r \in tbl : r.id = xpu_id
         IN  [id |-> row.id, context |-> row.context, signals |-> row.signals,
              advice_nl |-> row.advice_nl, atoms |-> row.atoms]
    ELSE NOT_FOUND

\* telemetry->>'field' of a row, read as view_sources.py reads it
Counter(row, field) ==
    IF row.telemetry = NULL THEN 0
    ELSE IF field \in DOMAIN row.telemetry THEN row.telemetry[field] ELSE 0

\* jsonb_set(COALESCE(telemetry, '{}'), '{field}',
\*           (COALESCE(telemetry->>'field', '0')::int + 1)::text::jsonb)
JsonbSetPlusOne(telemetry, field) ==
    LET obj == IF telemetry = NULL THEN <<>> ELSE telemetry
        old == IF telemetry # NULL /\ field \in DOMAIN telemetry
               THEN telemetry[field] ELSE 0
    IN  [f \in (DOMAIN obj) \cup {field} |->
            IF f = field THEN old + 1 ELSE obj[f]]

\* UPDATE xpu_entries SET telemetry = ... WHERE id = ANY(ids)
UpdateTelemetryStatement(tbl, xpu_ids, field) ==
    {IF r.id \in Range(xpu_ids)
     THEN [r EXCEPT !.telemetry = JsonbSetPlusOne(r.telemetry, field)]
     ELSE r : r \in tbl}

\* XpuVectorStore.increment_telemetry: without a telemetry column the UPDATE
\* raises UndefinedColumn, which the except branch logs; nothing is committed
increment_telemetry(tbl, has_column, xpu_ids, field) ==
    IF xpu_ids = <<>> THEN tbl
    ELSE IF ~has_column THEN tbl
    ELSE UpdateTelemetryStatement(tbl, xpu_ids, field)

\* XpuContext; a version string is the sequence of its characters, and the
\* empty sequence stands for a python that is None or ""
XpuContext(lang, os, python, tools) ==
    [lang |-> lang, os |-> os, python |-> python, tools |-> tools]

\* context->'key' as a JSON array: no elements when the key is missing
JsonArray(context, key) ==
    IF key \in DOMAIN context THEN context[key] ELSE <<>>

\* v LIKE f"{py_ver}%" for a py_ver of one character
LikePrefix(v, py_ver) ==
    \/ py_ver = "%"
    \/ Len(v) >= 1 /\ (py_ver = "_" \/ v[1] = py_ver)

\* the WHERE clauses search builds from ctx; `for py_ver in ctx.python`
\* runs over the characters of the version string
ContextFilter(row, ctx) ==
    /\ (~Falsy(ctx.lang) =>
            "lang" \in DOMAIN row.context /\ row.context.lang = ctx.lang)
    /\ (ctx.python # <<>> =>
            \E i \in 1..Len(ctx.python) :
                \E v \in Range(JsonArray(row.context, "python")) :
                    LikePrefix(v, ctx.python[i]))
    /\ (ctx.tools # <<>> =>
            \E t \in Range(ctx.tools) :
                t \in Range(JsonArray(row.context, "tools")))

Injective(s) == \A i, j \in 1..Len(s) : s[i] = s[j] => i = j

Min(a, b) == IF a <= b THEN a ELSE b

\* the rows a search may return: those that pass the threshold and the
\* filters, by descending similarity, the first k; rows of equal similarity
\* come in either order
SearchRows(tbl, query_embedding, ctx, k, min_similarity) ==
    LET pass == {r \in tbl :
                    /\ SqlGe(Similarity(r.embedding, query_embedding),
                             min_similarity)
                    /\ ContextFilter(r, ctx)}
        n == Min(k, Cardinality(pass))
        dist(r) == Distance(r.embedding, query_embedding)
    IN  {s \in [1..n -> pass] :
            /\ Injective(s)
            /\ \A i \in 1..n : \A j \in 1..n :
                   i < j => SqlLe(dist(s[i]), dist(s[j]))
            /\ \A r \in pass \ Range(s) :
                   \A i \in 1..n : SqlLe(dist(s[i]), dist(r))}

ResultOf(row, query_embedding) ==
    [id |-> row.id, context |-> row.context, signals |-> row.signals,
     advice_nl |-> row.advice_nl, atoms |-> row.atoms,
     similarity |-> Similarity(row.embedding, query_embedding)]

\* XpuVectorStore.search: the result lists it may return
search(tbl, query_embedding, ctx, k, min_similarity) ==
    {[i \in 1..Len(s) |-> ResultOf(s[i], query_embedding)] :
        s \in SearchRows(tbl, query_embedding, ctx, k, min_similarity)}

----------------------------------------------------------------------------
(* Rendering (xpu_adapter.py).  A formatted string is the tuple of its    *)
(* parts; a block is the sequence of its lines, "" the empty sequence.    *)

ArgGet(args, key, default) == IF key \in DOMAIN args THEN args[key] ELSE default

\* an args attribute that is None (a JSON null), kept apart from the empty
\* mapping {}
ARGS_NONE == [None |-> None]
EMPTY_ARGS == [key \in {} |-> None]

\* atom.args or {}
ArgsOrEmpty(args) == IF args \in {ARGS_NONE, EMPTY_ARGS} THEN EMPTY_ARGS ELSE args

render_atom_to_commands(atom) ==
    LET name == atom.name
        args == ArgsOrEmpty(atom.args)
    IN  CASE name \in {"pip_pin", "pip_install"} ->
                IF ArgGet(args, "name", None) = None THEN <<>>
                ELSE << <<"pip install '", ArgGet(args, "name", None),
                          ArgGet(args, "spec", ""), "'">> >>
          [] name = "set_pytest_flag" ->
                IF Falsy(ArgGet(args, "name", None))
                       \/ ArgGet(args, "value", None) = None THEN <<>>
                ELSE << <<"pytest ", ArgGet(args, "name", None), "=",
                          ArgGet(args, "value", None)>> >>
          [] name = "set_env" ->
                IF Falsy(ArgGet(args, "key", None))
                       \/ ArgGet(args, "value", None) = None THEN <<>>
                ELSE << <<"export ", ArgGet(args, "key", None), "=",
                          ArgGet(args, "value", None)>> >>
          [] name = "set_umask" ->
                IF ArgGet(args, "value", None) = None THEN <<>>
                ELSE << <<"umask ", ArgGet(args, "value", None)>> >>
          [] name = "set_django_setting" ->
                IF Falsy(ArgGet(args, "key", None)) THEN <<>>
                ELSE << <<"python - <<'PY'">>,
                        <<"from django.conf import settings">>,
                        <<"settings.", ArgGet(args, "key", None), " = ",
                          <<"repr", ArgGet(args, "value", None)>> >>,
                        <<"PY">> >>
          [] name = "or_upgrade_pkg" ->
                IF Falsy(ArgGet(args, "name", None))
                       \/ Falsy(ArgGet(args, "min_version", None)) THEN <<>>
                ELSE << <<"pip install '", ArgGet(args, "name", None), ">=",
                          ArgGet(args, "min_version", None), "'">> >>
          [] OTHER -> <<>>

RECURSIVE render_entry_commands_from(_, _)
render_entry_commands_from(atoms, i) ==
    IF i > Len(atoms) THEN <<>>
    ELSE render_atom_to_commands(atoms[i])
             \o render_entry_commands_from(atoms, i + 1)

render_entry_commands(entry) == render_entry_commands_from(entry.atoms, 1)

EntryLines(e) ==
    LET cmds == render_entry_commands(e)
    IN  << <<"- Fix (id=", e.id, "):">> >>
        \o (IF e.advice_nl # <<>>
            THEN << <<"  Advice:">> >>
                 \o [i \in 1..Len(e.advice_nl) |-> <<"    - ", e.advice_nl[i]>>]
            ELSE <<>>)
        \o (IF cmds # <<>>
            THEN << <<"  Bash snippet:">> >>
                 \o [i \in 1..Len(cmds) |-> <<"    ", cmds[i]>>]
            ELSE <<>>)

RECURSIVE EntriesLines(_, _)
EntriesLines(entries, i) ==
    IF i > Len(entries) THEN <<>>
    ELSE EntryLines(entries[i]) \o EntriesLines(entries, i + 1)

render_candidates_block(entries) ==
    IF entries = <<>> THEN <<>>
    ELSE << <<"Candidate Fixes from XPU (choose only what you need):">> >>
         \o EntriesLines(entries, 1)

----------------------------------------------------------------------------
(* XpuHandler (xpu_handler.py) *)

\* a decision that does not look at the last query
_should_query_xpu_IgnoresLastQuery(store, memo, log_snippet, has_error) ==
    /\ store
    /\ log_snippet # <<>>
    /\ has_error

_should_query_xpu(store, memo, log_snippet, has_error) ==
    /\ store
    /\ log_snippet # <<>>
    /\ has_error
    /\ memo # Memo(log_snippet)

\* what text_to_embedding does for a snippet: raise, or return a vector
EmbeddingOutcomes ==
    {[raised |-> TRUE]}
        \cup {[raised |-> FALSE, vector |-> v] :
                  v \in QueryEmbeddings \cup BadEmbeddings}

\* results converted to XpuEntry objects
Candidates(results) ==
    [i \in 1..Len(results) |->
        XpuEntry(results[i].id, results[i].context, results[i].signals,
                 results[i].advice_nl,
                 [j \in 1..Len(results[i].atoms) |->
                     XpuAtom(results[i].atoms[j].name, results[i].atoms[j].args)])]

\* the ids in the reverse of the order of the results
CandidateIds_Reversed(candidates) ==
    [i \in 1..Len(candidates) |-> candidates[Len(candidates) + 1 - i].id]

CandidateIds(candidates) == [i \in 1..Len(candidates) |-> candidates[i].id]

EMPTY_RETURN == <<<<>>, <<>>>>

\* retrieve_hints after a search that returned results
Selected(tbl, has_column, used, log_snippet, results) ==
    LET candidates == Candidates(results)
        candidate_ids == CandidateIds(candidates)
    IN  [stage |-> "selected",
         ret |-> <<render_candidates_block(candidates), candidate_ids>>,
         last_query |-> Memo(log_snippet),
         session_used_ids |-> used \cup Range(candidate_ids),
         table |-> increment_telemetry(tbl, has_column, candidate_ids, "hits"),
         raised |-> None, results |-> results]

Unchanged(stage, tbl, memo, used) ==
    [stage |-> stage, ret |-> EMPTY_RETURN, last_query |-> memo,
     session_used_ids |-> used, table |-> tbl, raised |-> None,
     results |-> <<>>]

\* an except branch that lets the exception go on to the caller
ExceptReturnsEmpty_Reraises(stage, tbl, memo, used, e) ==
    [Unchanged(stage, tbl, memo, used) EXCEPT !.raised = e]

\* except Exception as e: the error is logged and "", [] returned
ExceptReturnsEmpty(stage, tbl, memo, used, e) ==
    Unchanged(stage, tbl, memo, used)

\* retrieve_hints after a search that returned results, when
\* increment_telemetry cannot take a connection (_get_conn raises outside
\* its try): last_query is already set, and the except branch returns
TelemetryUnreachable(tbl, used, log_snippet) ==
    ExceptReturnsEmpty("telemetry_failed", tbl, Memo(log_snippet), used,
                       "PoolError")

\* XpuHandler.retrieve_hints: the outcomes of one call
retrieve_hints(tbl, has_column, store, memo, used, sandbox_res) ==
    LET log_snippet == LogSnippet(sandbox_res)
        has_error == _check_has_error(log_snippet)
    IN  IF ~_should_query_xpu(store, memo, log_snippet, has_error)
        THEN {Unchanged("skipped", tbl, memo, used)}
        ELSE UNION {
            IF emb.raised
            THEN {ExceptReturnsEmpty("embedding_failed", tbl, memo, used,
                                     "RuntimeError")}
            ELSE IF DimensionMismatch(emb.vector)
            THEN {ExceptReturnsEmpty("search_failed", tbl, memo, used,
                                     "ValueError")}
            ELSE {ExceptReturnsEmpty("search_failed", tbl, memo, used,
                                     "DatabaseError")}
                 \cup
                 {IF results = <<>>
                  THEN Unchanged("no_results", tbl, memo, used)
                  ELSE Selected(tbl, has_column, used, log_snippet, results) :
                      results \in search(tbl, emb.vector,
                                         XpuContext("python", None, <<>>, <<>>),
                                         SEARCH_K, MIN_SIMILARITY)}
                 \cup
                 {TelemetryUnreachable(tbl, used, log_snippet) :
                      results \in search(tbl, emb.vector,
                                         XpuContext("python", None, <<>>, <<>>),
                                         SEARCH_K, MIN_SIMILARITY) \ {<<>>}}
            : emb \in EmbeddingOutcomes}

SeqOfSet(S) == CHOOSE s \in [1..Cardinality(S) -> S] : Range(s) = S

\* XpuHandler.update_realtime_feedback: the rows afterwards
update_realtime_feedback(tbl, has_column, store, last_ids, current_ids) ==
    IF ~store \/ last_ids = <<>> THEN tbl
    ELSE LET last_set == Range(last_ids)
             curr_set == Range(current_ids)
             failed_ids == SeqOfSet(last_set \cap curr_set)
             succeeded_ids == SeqOfSet(last_set \ curr_set)
             t1 == IF failed_ids # <<>>
                   THEN increment_telemetry(tbl, has_column, failed_ids, "failures")
                   ELSE tbl
         IN  IF succeeded_ids # <<>>
             THEN increment_telemetry(t1, has_column, succeeded_ids, "successes")
             ELSE t1

\* a finalize_session that keeps the set
finalize_session_KeepsUsed(store, used, is_task_success) == used

\* XpuHandler.finalize_session: the session-used set afterwards
finalize_session(store, used, is_task_success) ==
    IF ~store \/ used = {} THEN used ELSE {}

----------------------------------------------------------------------------
(* One session and the store, call by call *)

\* id lists without duplicates
IdListsNoDup == {s \in IdLists : Injective(s)}

\* what the indexing script upserts while the session runs
SessionUpserts == {
    <<EntryOf("xpu_1", CONTENT_PIP), <<1, 0>>>>,
    <<EntryOf("xpu_2", CONTENT_UMASK), <<0, 1>>>>,
    <<EntryOf("xpu_2", CONTENT_JAVA), <<1, 0>>>>,
    <<EntryOf("xpu_1", CONTENT_PIP), <<1>>>> }

CountersWithin(tbl) ==
    \A r \in tbl : \A f \in Fields : Counter(r, f) <= MaxCount

no_conc == [pc |-> <<>>, op |-> <<>>, txn |-> <<>>, pool_used |-> <<>>,
            done_calls |-> <<>>]

\* CREATE TABLE IF NOT EXISTS keeps a table that exists: the table either
\* comes from create_xpu_table, which declares no telemetry column, or
\* existed before with the telemetry column that check_xpu.py reads
Init ==
    /\ telemetry_column \in BOOLEAN
    /\ xpu_entries = {}
    /\ vector_store \in BOOLEAN
    /\ last_query = NO_QUERY
    /\ session_used_ids = {}
    /\ call = [op |-> "init"]
    /\ pc = no_conc.pc
    /\ op = no_conc.op
    /\ txn = no_conc.txn
    /\ pool_used = no_conc.pool_used
    /\ done_calls = no_conc.done_calls

UpsertEntry(entry, embedding) ==
    LET out == upsert_entry(xpu_entries, entry, embedding)
    IN  /\ xpu_entries' = out.table
        /\ call' = [op |-> "upsert_entry", entry |-> entry,
                    embedding |-> embedding, raised |-> out.raised,
                    acquired |-> out.acquired, released |-> out.released]
        /\ UNCHANGED <<telemetry_column, handler_vars, conc_vars>>

GetEntry(xpu_id) ==
    /\ call' = [op |-> "get_entry", xpu_id |-> xpu_id,
                ret |-> get_entry(xpu_entries, xpu_id)]
    /\ UNCHANGED <<telemetry_column, xpu_entries, handler_vars, conc_vars>>

IncrementTelemetry(xpu_ids, field) ==
    /\ xpu_entries' =
           increment_telemetry(xpu_entries, telemetry_column, xpu_ids, field)
    /\ CountersWithin(xpu_entries')
    /\ call' = [op |-> "increment_telemetry"]
    /\ UNCHANGED <<telemetry_column, handler_vars, conc_vars>>

RetrieveHints(sandbox_res) ==
    \E out \in retrieve_hints(xpu_entries, telemetry_column, vector_store,
                              last_query, session_used_ids, sandbox_res) :
        /\ CountersWithin(out.table)
        /\ xpu_entries' = out.table
        /\ last_query' = out.last_query
        /\ session_used_ids' = out.session_used_ids
        /\ call' = [op |-> "retrieve_hints", sandbox_res |-> sandbox_res,
                    log_snippet |-> LogSnippet(sandbox_res),
                    stage |-> out.stage, ret |-> out.ret,
                    raised |-> out.raised, results |-> out.results]
        /\ UNCHANGED <<telemetry_column, vector_store, conc_vars>>

UpdateRealtimeFeedback(last_ids, current_ids) ==
    /\ xpu_entries' =
           update_realtime_feedback(xpu_entries, telemetry_column,
                                    vector_store, last_ids, current_ids)
    /\ CountersWithin(xpu_entries')
    /\ call' = [op |-> "update_realtime_feedback"]
    /\ UNCHANGED <<telemetry_column, handler_vars, conc_vars>>

FinalizeSession(is_task_success) ==
    /\ session_used_ids' =
           finalize_session(vector_store, session_used_ids, is_task_success)
    /\ call' = [op |-> "finalize_session"]
    /\ UNCHANGED <<telemetry_column, xpu_entries, vector_store, last_query,
                   conc_vars>>

Next ==
    \/ \E u \in SessionUpserts : UpsertEntry(u[1], u[2])
    \/ \E xpu_id \in Ids : GetEntry(xpu_id)
    \/ \E xpu_ids \in IdLists, field \in Fields :
           IncrementTelemetry(xpu_ids, field)
    \/ \E sandbox_res \in Observations : RetrieveHints(sandbox_res)
    \/ \E last_ids, current_ids \in IdListsNoDup :
           UpdateRealtimeFeedback(last_ids, current_ids)
    \/ \E is_task_success \in BOOLEAN : FinalizeSession(is_task_success)

Spec == Init /\ [][Next]_vars

----------------------------------------------------------------------------
(* Sessions that share one XpuVectorStore, statement by statement.  Each  *)
(* store method takes a connection, executes its statement in a           *)
(* transaction of that connection, commits, and returns the connection    *)
(* in its finally block.  Statements run at READ COMMITTED: they read the *)
(* committed rows, and a write waits while another transaction holds the  *)
(* row (or the key it inserts).                                           *)

\* threads that call the store
Sessions == {"s1", "s2"}
\* calls each of them makes
MaxCalls == 2

NO_TXN == [locks |-> {}, rows |-> {}]

\* the table after the indexing script has run
IndexedRows ==
    UpsertStatement(
        UpsertStatement({}, EntryOf("xpu_1", CONTENT_PIP), <<1, 0>>),
        EntryOf("xpu_2", CONTENT_UMASK), <<0, 1>>)

\* upserts made while others read and count: a replace, an insert, and a
\* vector of a wrong length
ConcUpserts == {
    <<EntryOf("xpu_1", CONTENT_JAVA), <<0, 1>>>>,
    <<EntryOf("xpu_3", CONTENT_PIP), <<1, 0>>>>,
    <<EntryOf("xpu_1", CONTENT_UMASK), <<1>>>> }

\* telemetry updates made meanwhile: lists that overlap on one field, a
\* list that repeats an id, a list in the other order, the empty list
ConcIncrements == {
    <<<<"xpu_1">>, "hits">>,
    <<<<"xpu_1", "xpu_2">>, "hits">>,
    <<<<"xpu_2", "xpu_1">>, "failures">>,
    <<<<"xpu_2", "xpu_2">>, "failures">>,
    <<<<>>, "successes">> }

\* query vectors of concurrent searches
ConcQueries == {<<1, 0>>, <<1>>}

\* ids read meanwhile with get_entry: one that is stored, one that an
\* upsert may insert
ConcGets == {"xpu_1", "xpu_3"}

InitConc ==
    /\ telemetry_column \in BOOLEAN
    /\ xpu_entries = IndexedRows
    /\ vector_store = TRUE
    /\ last_query = NO_QUERY
    /\ session_used_ids = {}
    /\ call = [op |-> "init"]
    /\ pc = [s \in Sessions |-> "idle"]
    /\ op = [s \in Sessions |-> [name |-> "none", n |-> 0, raised |-> None]]
    /\ txn = [s \in Sessions |-> NO_TXN]
    /\ pool_used = {}
    /\ done_calls = [id \in Ids |-> [f \in Fields |-> 0]]

session_vars == <<telemetry_column, handler_vars, call>>

\* a thread calls upsert_entry(entry, embedding)
CallUpsertEntry(s, entry, embedding) ==
    /\ pc[s] = "idle"
    /\ op[s].n < MaxCalls
    /\ pc' = [pc EXCEPT ![s] = "called"]
    /\ op' = [op EXCEPT ![s] = [name |-> "upsert_entry", n |-> op[s].n + 1,
                                raised |-> None, entry |-> entry,
                                embedding |-> embedding]]
    /\ UNCHANGED <<xpu_entries, txn, pool_used, done_calls, session_vars>>

\* a thread calls increment_telemetry(xpu_ids, field)
CallIncrementTelemetry(s, xpu_ids, field) ==
    /\ pc[s] = "idle"
    /\ op[s].n < MaxCalls
    /\ pc' = [pc EXCEPT ![s] = "called"]
    /\ op' = [op EXCEPT ![s] = [name |-> "increment_telemetry",
                                n |-> op[s].n + 1, raised |-> None,
                                xpu_ids |-> xpu_ids, field |-> field]]
    /\ UNCHANGED <<xpu_entries, txn, pool_used, done_calls, session_vars>>

\* a thread calls search(query_embedding) with the default ctx, k and
\* min_similarity
CallSearch(s, query_embedding) ==
    /\ pc[s] = "idle"
    /\ op[s].n < MaxCalls
    /\ pc' = [pc EXCEPT ![s] = "called"]
    /\ op' = [op EXCEPT ![s] = [name |-> "search", n |-> op[s].n + 1,
                                raised |-> None,
                                query_embedding |-> query_embedding,
                                ret |-> <<>>]]
    /\ UNCHANGED <<xpu_entries, txn, pool_used, done_calls, session_vars>>

\* a thread calls get_entry(xpu_id)
CallGetEntry(s, xpu_id) ==
    /\ pc[s] = "idle"
    /\ op[s].n < MaxCalls
    /\ pc' = [pc EXCEPT ![s] = "called"]
    /\ op' = [op EXCEPT ![s] = [name |-> "get_entry", n |-> op[s].n + 1,
                                raised |-> None, xpu_id |-> xpu_id,
                                ret |-> NOT_FOUND]]
    /\ UNCHANGED <<xpu_entries, txn, pool_used, done_calls, session_vars>>

\* the method returns or raises before it has asked for a connection
ReturnsEarly(o) ==
    \/ o.name = "upsert_entry" /\ DimensionMismatch(o.embedding)
    \/ o.name = "search" /\ DimensionMismatch(o.query_embedding)
    \/ o.name = "increment_telemetry" /\ o.xpu_ids = <<>>

\* completed increment_telemetry calls, per id they name and field
Counted(o) ==
    IF o.name = "increment_telemetry"
    THEN [id \in Ids |-> [f \in Fields |->
            done_calls[id][f]
                + One(f = o.field /\ id \in Range(o.xpu_ids))]]
    ELSE done_calls

\* the checks before _get_conn: the dimension check of upsert_entry and
\* search raises ValueError, increment_telemetry returns on an empty list
EarlyReturn(s) ==
    /\ pc[s] = "called"
    /\ ReturnsEarly(op[s])
    /\ pc' = [pc EXCEPT ![s] = "idle"]
    /\ op' = [op EXCEPT ![s].raised =
                 IF op[s].name = "increment_telemetry" THEN None
                 ELSE "ValueError"]
    /\ done_calls' = Counted(op[s])
    /\ UNCHANGED <<xpu_entries, txn, pool_used, session_vars>>

\* conn = self._get_conn(): pool.getconn() raises PoolError when all
\* connections are checked out
GetConn(s) ==
    /\ pc[s] = "called"
    /\ ~ReturnsEarly(op[s])
    /\ IF Cardinality(pool_used) < POOL_MAX
       THEN /\ pool_used' = pool_used \cup {s}
            /\ pc' = [pc EXCEPT ![s] = "acquired"]
            /\ UNCHANGED op
       ELSE /\ pc' = [pc EXCEPT ![s] = "idle"]
            /\ op' = [op EXCEPT ![s].raised = "PoolError"]
            /\ UNCHANGED pool_used
    /\ UNCHANGED <<xpu_entries, txn, done_calls, session_vars>>

\* ids whose rows (or keys) transactions of other sessions hold
LockedByOthers(s) == UNION {txn[t].locks : t \in (DOMAIN txn) \ {s}}

\* cur.execute of upsert_entry: the row is written in the transaction
ExecuteUpsert(s) ==
    /\ pc[s] = "acquired"
    /\ op[s].name = "upsert_entry"
    /\ op[s].entry.id \notin LockedByOthers(s)
    /\ txn' = [txn EXCEPT ![s] =
                 [locks |-> {op[s].entry.id},
                  rows |-> {r \in UpsertStatement(xpu_entries, op[s].entry,
                                                  op[s].embedding) :
                               r.id = op[s].entry.id}]]
    /\ pc' = [pc EXCEPT ![s] = "executed"]
    /\ UNCHANGED <<xpu_entries, op, pool_used, done_calls, session_vars>>

\* cur.execute of increment_telemetry: without a telemetry column the
\* statement raises and the except branch logs it; with one, the rows
\* named by the list are written in the transaction
ExecuteIncrement(s) ==
    /\ pc[s] = "acquired"
    /\ op[s].name = "increment_telemetry"
    /\ IF ~telemetry_column
       THEN /\ pc' = [pc EXCEPT ![s] = "finally"]
            /\ UNCHANGED txn
       ELSE LET target == {r.id : r \in xpu_entries} \cap Range(op[s].xpu_ids)
            IN  /\ target \cap LockedByOthers(s) = {}
                /\ txn' = [txn EXCEPT ![s] =
                             [locks |-> target,
                              rows |-> {r \in UpdateTelemetryStatement(
                                               xpu_entries, op[s].xpu_ids,
                                               op[s].field) :
                                           r.id \in target}]]
                /\ pc' = [pc EXCEPT ![s] = "executed"]
    /\ UNCHANGED <<xpu_entries, op, pool_used, done_calls, session_vars>>

\* cur.execute and fetchall of search: reads the committed rows
ExecuteSearch(s) ==
    /\ pc[s] = "acquired"
    /\ op[s].name = "search"
    /\ \E results \in search(xpu_entries, op[s].query_embedding,
                             XpuContext(None, None, <<>>, <<>>), SEARCH_K, 0) :
           op' = [op EXCEPT ![s].ret = results]
    /\ pc' = [pc EXCEPT ![s] = "finally"]
    /\ UNCHANGED <<xpu_entries, txn, pool_used, done_calls, session_vars>>

\* cur.execute and fetchone of get_entry: reads the committed row
ExecuteGetEntry(s) ==
    /\ pc[s] = "acquired"
    /\ op[s].name = "get_entry"
    /\ op' = [op EXCEPT ![s].ret = get_entry(xpu_entries, op[s].xpu_id)]
    /\ pc' = [pc EXCEPT ![s] = "finally"]
    /\ UNCHANGED <<xpu_entries, txn, pool_used, done_calls, session_vars>>

\* the statement of search or get_entry fails (connection lost, statement
\* rejected): the exception leaves through the finally block
ReadFails(s) ==
    /\ pc[s] = "acquired"
    /\ op[s].name \in {"search", "get_entry"}
    /\ pc' = [pc EXCEPT ![s] = "finally"]
    /\ op' = [op EXCEPT ![s].raised = "DatabaseError"]
    /\ UNCHANGED <<xpu_entries, txn, pool_used, done_calls, session_vars>>

\* conn.commit(): the rows written by the transaction replace the
\* committed ones, all at once
Commit(s) ==
    /\ pc[s] = "executed"
    /\ xpu_entries' =
           {r \in xpu_entries : r.id \notin {w.id : w \in txn[s].rows}}
               \cup txn[s].rows
    /\ txn' = [txn EXCEPT ![s] = NO_TXN]
    /\ pc' = [pc EXCEPT ![s] = "finally"]
    /\ UNCHANGED <<op, pool_used, done_calls, session_vars>>

\* the statement or the commit of upsert_entry fails (connection lost,
\* statement rejected): the exception leaves through the finally block
UpsertFails(s) ==
    /\ pc[s] \in {"acquired", "executed"}
    /\ op[s].name = "upsert_entry"
    /\ pc' = [pc EXCEPT ![s] = "finally"]
    /\ op' = [op EXCEPT ![s].raised = "DatabaseError"]
    /\ UNCHANGED <<xpu_entries, txn, pool_used, done_calls, session_vars>>

\* a connection given back only when nothing was raised, as without the
\* finally blocks
PutConn_UnlessRaised(s) ==
    /\ pc[s] = "finally"
    /\ pool_used' = IF op[s].raised = None THEN pool_used \ {s} ELSE pool_used
    /\ txn' = [txn EXCEPT ![s] = NO_TXN]
    /\ pc' = [pc EXCEPT ![s] = "idle"]
    /\ done_calls' = Counted(op[s])
    /\ UNCHANGED <<xpu_entries, op, session_vars>>

\* finally: self._put_conn(conn); putconn rolls back what is uncommitted
PutConn(s) ==
    /\ pc[s] = "finally"
    /\ pool_used' = pool_used \ {s}
    /\ txn' = [txn EXCEPT ![s] = NO_TXN]
    /\ pc' = [pc EXCEPT ![s] = "idle"]
    /\ done_calls' = Counted(op[s])
    /\ UNCHANGED <<xpu_entries, op, session_vars>>

NextConc ==
    \/ \E s \in Sessions : \E u \in ConcUpserts :
           CallUpsertEntry(s, u[1], u[2])
    \/ \E s \in Sessions : \E i \in ConcIncrements :
           CallIncrementTelemetry(s, i[1], i[2])
    \/ \E s \in Sessions : \E q \in ConcQueries : CallSearch(s, q)
    \/ \E s \in Sessions : \E xpu_id \in ConcGets : CallGetEntry(s, xpu_id)
    \/ \E s \in Sessions : EarlyReturn(s)
    \/ \E s \in Sessions : GetConn(s)
    \/ \E s \in Sessions : ExecuteUpsert(s)
    \/ \E s \in Sessions : ExecuteIncrement(s)
    \/ \E s \in Sessions : ExecuteSearch(s)
    \/ \E s \in Sessions : ExecuteGetEntry(s)
    \/ \E s \in Sessions : ReadFails(s)
    \/ \E s \in Sessions : Commit(s)
    \/ \E s \in Sessions : UpsertFails(s)
    \/ \E s \in Sessions : PutConn(s)

SpecConc == InitConc /\ [][NextConc]_vars

----------------------------------------------------------------------------
(* More threads than the pool has connections, each with one call left *)

PoolSessions == {"s1", "s2", "s3", "s4", "s5", "s6"}

\* the telemetry update each of them makes
PoolIncrements == { <<<<"xpu_1">>, "hits">> }

InitPool ==
    /\ telemetry_column \in BOOLEAN
    /\ xpu_entries = IndexedRows
    /\ vector_store = TRUE
    /\ last_query = NO_QUERY
    /\ session_used_ids = {}
    /\ call = [op |-> "init"]
    /\ pc = [s \in PoolSessions |-> "idle"]
    /\ op = [s \in PoolSessions |->
                [name |-> "none", n |-> MaxCalls - 1, raised |-> None]]
    /\ txn = [s \in PoolSessions |-> NO_TXN]
    /\ pool_used = {}
    /\ done_calls = [id \in Ids |-> [f \in Fields |-> 0]]

NextPool ==
    \/ \E s \in PoolSessions : \E i \in PoolIncrements :
           CallIncrementTelemetry(s, i[1], i[2])
    \/ \E s \in PoolSessions : GetConn(s)
    \/ \E s \in PoolSessions : ExecuteIncrement(s)
    \/ \E s \in PoolSessions : Commit(s)
    \/ \E s \in PoolSessions : PutConn(s)

SpecPool == InitPool /\ [][NextPool]_vars

----------------------------------------------------------------------------
(* Direct calls of the library functions, on inputs drawn from small sets *)

\* search is called with k up to this value
MaxK == 2

\* version strings
V_3 == <<"3">>
V_38 == <<"3", ".", "8">>
V_310 == <<"3", ".", "1", "0">>

\* an entry that declares the python versions and the OS it applies to
CONTENT_PY38 ==
    [context |-> [lang |-> "python", tools |-> <<"pip">>,
                  python |-> <<V_38>>, os |-> <<"linux">>],
     signals |-> [keywords |-> <<"ModuleNotFoundError">>],
     advice_nl |-> <<"use python 3.8">>,
     atoms |-> <<>>]

\* rows the table may hold when search is called; one of them has an
\* embedding whose components are all 0.0
SearchableRows ==
    {InsertedRow(InsertValues(u[1], u[2])) : u \in {
        <<EntryOf("xpu_1", CONTENT_PIP), <<1, 0>>>>,
        <<EntryOf("xpu_2", CONTENT_UMASK), <<0, 1>>>>,
        <<EntryOf("xpu_3", CONTENT_JAVA), <<1, 1>>>>,
        <<EntryOf("xpu_4", CONTENT_PY38), <<1, 0>>>>,
        <<EntryOf("xpu_5", CONTENT_PIP), <<0, 0>>>> }}

SearchContexts == {
    XpuContext(None, None, <<>>, <<>>),
    XpuContext("python", None, <<>>, <<>>),
    XpuContext("python", None, V_310, <<>>),
    XpuContext(None, None, V_3, <<>>),
    XpuContext(None, None, V_38, <<"pip">>),
    XpuContext("java", None, <<>>, <<"mvn", "pip">>) }

MinSimilarities == {0, MIN_SIMILARITY, 1000}

InitCalls ==
    /\ telemetry_column = FALSE
    /\ xpu_entries \in SUBSET SearchableRows
    /\ vector_store = FALSE
    /\ last_query = NO_QUERY
    /\ session_used_ids = {}
    /\ call = [op |-> "init"]
    /\ pc = no_conc.pc
    /\ op = no_conc.op
    /\ txn = no_conc.txn
    /\ pool_used = no_conc.pool_used
    /\ done_calls = no_conc.done_calls

\* search(query_embedding, ctx, k, min_similarity) on the committed rows
Search(query_embedding, ctx, k, min_similarity) ==
    /\ \E results \in search(xpu_entries, query_embedding, ctx, k,
                             min_similarity) :
           call' = [op |-> "search", query_embedding |-> query_embedding,
                    ctx |-> ctx, k |-> k, min_similarity |-> min_similarity,
                    ret |-> results]
    /\ UNCHANGED <<telemetry_column, xpu_entries, handler_vars, conc_vars>>

NextCalls ==
    \/ \E q \in Vectors, ctx \in SearchContexts, k \in 0..MaxK,
          m \in MinSimilarities : Search(q, ctx, k, m)

SpecCalls == InitCalls /\ [][NextCalls]_vars

----------------------------------------------------------------------------
(* The heuristic matcher (experience.py) and the in-memory scorer         *)
(* (xpu_adapter.py), called on inputs drawn from small sets.  A regex     *)
(* pattern is one of: a literal without metacharacters, ".*", a pattern   *)
(* the re module rejects with re.error (such as "("), and a pattern it    *)
(* rejects with OverflowError (such as "a{4294967296}").                  *)

\* knowledge bases hold up to this many entries
MaxKb == 3

T_MODULE_NOT_FOUND ==
    <<"M", "o", "d", "u", "l", "e", "N", "o", "t", "F", "o", "u", "n", "d",
      "E", "r", "r", "o", "r">>
T_SETUP_PY == <<"s", "e", "t", "u", "p", ".", "p", "y">>
T_A_PY == <<"a", ".", "p", "y">>
\* "ModuleNotFoundError: No module named 'numpy'"
OBS_NUMPY ==
    T_MODULE_NOT_FOUND \o
    <<":", " ", "N", "o", " ", "m", "o", "d", "u", "l", "e", " ", "n", "a",
      "m", "e", "d", " ", "'", "n", "u", "m", "p", "y", "'">>

RE_LITERAL(text) == [kind |-> "literal", text |-> text]
RE_ANY == [kind |-> "any", text |-> <<".", "*">>]
RE_UNTERMINATED == [kind |-> "re.error", text |-> <<"(">>]
RE_TOO_LARGE ==
    [kind |-> "OverflowError",
     text |-> <<"a", "{", "4", "2", "9", "4", "9", "6", "7", "2", "9", "6",
                "}">>]
RE_MODULE == RE_LITERAL(<<"m", "o", "d", "u", "l", "e">>)
RE_ERROR == RE_LITERAL(<<"E", "r", "r", "o", "r">>)

\* re.search(pattern, text, flags): what it raises, and whether it matched
re_search(pattern, text, ignorecase) ==
    CASE pattern.kind = "literal" ->
            [raised |-> None,
             matched |-> IF ignorecase
                         THEN Contains(LowerStr(text), LowerStr(pattern.text))
                         ELSE Contains(text, pattern.text)]
      [] pattern.kind = "any" -> [raised |-> None, matched |-> TRUE]
      [] OTHER -> [raised |-> pattern.kind, matched |-> FALSE]

\* f"[Knowledge Base Hint]: {advice}"
KnowledgeBaseHint(advice) == <<"[Knowledge Base Hint]: ", advice>>

\* the body of the loop of retrieve that decides is_match for one entry;
\* `except: continue` skips a pattern whatever it raises
is_match(exp, observation, current_files) ==
    LET regex_list == exp.signals.regex
        keywords == exp.signals.keywords
        by_regex ==
            /\ observation # <<>>
            /\ \E i \in 1..Len(regex_list) :
                   LET m == re_search(regex_list[i], observation, TRUE)
                   IN  m.raised = None /\ m.matched
        by_keyword ==
            /\ observation # <<>>
            /\ keywords # <<>>
            /\ \E i \in 1..Len(keywords) : Contains(observation, keywords[i])
        by_files ==
            /\ Range(current_files) # {}
            /\ keywords # <<>>
            /\ Range(current_files) \cap Range(keywords) # {}
    IN  by_regex \/ by_keyword \/ by_files

RECURSIVE retrieve_from(_, _, _, _, _)
retrieve_from(knowledge_base, i, hit_ids, observation, current_files) ==
    IF i > Len(knowledge_base) THEN <<>>
    ELSE LET exp == knowledge_base[i]
             emit == /\ is_match(exp, observation, current_files)
                     /\ exp.id \notin hit_ids
         IN  (IF emit
              THEN [j \in 1..Len(exp.advice_nl) |->
                       KnowledgeBaseHint(exp.advice_nl[j])]
              ELSE <<>>)
             \o retrieve_from(knowledge_base, i + 1,
                              IF emit THEN hit_ids \cup {exp.id} ELSE hit_ids,
                              observation, current_files)

\* ExperienceRetriever.retrieve
retrieve(knowledge_base, observation, current_files) ==
    retrieve_from(knowledge_base, 1, {}, observation, current_files)

\* entries of a knowledge base, as json.loads reads them
EXP_NUMPY ==
    [id |-> "exp_1",
     signals |-> [regex |-> <<>>, keywords |-> <<T_MODULE_NOT_FOUND>>],
     advice_nl |-> <<"pin numpy">>]
EXP_ANY ==
    [id |-> "exp_2",
     signals |-> [regex |-> <<RE_ANY>>, keywords |-> <<>>],
     advice_nl |-> <<"check the log", "retry">>]
EXP_BROKEN ==
    [id |-> "exp_3",
     signals |-> [regex |-> <<RE_UNTERMINATED, RE_TOO_LARGE, RE_ERROR>>,
                  keywords |-> <<T_SETUP_PY>>],
     advice_nl |-> <<"install setuptools">>]
EXP_MANY ==
    [id |-> "exp_4",
     signals |-> [regex |-> <<RE_ERROR, RE_MODULE>>,
                  keywords |-> <<T_MODULE_NOT_FOUND, T_SETUP_PY>>],
     advice_nl |-> <<"use a venv", "upgrade pip">>]
ExpEntries == {EXP_NUMPY, EXP_ANY, EXP_BROKEN, EXP_MANY}

\* knowledge bases: entries with distinct ids, in their load order
KnowledgeBases ==
    UNION {{kb \in [1..n -> ExpEntries] : Injective(kb)} : n \in 0..MaxKb}

MatchObservations == {S_EMPTY, S_OK, S_ERR, OBS_NUMPY}
FileLists == {<<>>, <<T_A_PY>>, <<T_SETUP_PY, T_A_PY>>}

\* dict.get(key) or []
GetList(d, key) == IF key \in DOMAIN d THEN d[key] ELSE <<>>

\* dict.get(key)
Get(d, key) == IF key \in DOMAIN d THEN d[key] ELSE None

\* str.startswith
StartsWith(s, prefix) ==
    Len(prefix) <= Len(s) /\ SubSeq(s, 1, Len(prefix)) = prefix

\* _match_regex tries the patterns in order from the i-th: it returns True
\* at the first match, skips a pattern that raises re.error, and lets any
\* other exception of re.search out
RECURSIVE _match_regex_from(_, _, _)
_match_regex_from(log_snippet, patterns, i) ==
    IF i > Len(patterns) THEN [raised |-> None, ret |-> FALSE]
    ELSE LET m == re_search(patterns[i], log_snippet, FALSE)
         IN  IF m.raised = None
             THEN IF m.matched THEN [raised |-> None, ret |-> TRUE]
                  ELSE _match_regex_from(log_snippet, patterns, i + 1)
             ELSE IF m.raised = "re.error"
                  THEN _match_regex_from(log_snippet, patterns, i + 1)
                  ELSE [raised |-> m.raised, ret |-> FALSE]

_match_regex(log_snippet, patterns) ==
    _match_regex_from(log_snippet, patterns, 1)

_keyword_score(log_snippet, keywords) ==
    LET text == LowerStr(log_snippet)
    IN  Cardinality({i \in 1..Len(keywords) :
                        /\ keywords[i] # <<>>
                        /\ Contains(text, LowerStr(keywords[i]))})

_context_match_score(entry, ctx) ==
    LET ectx == entry.context
        tools_entry == Range(GetList(ectx, "tools"))
        tools_ctx == Range(ctx.tools)
        py_list == GetList(ectx, "python")
        os_list == GetList(ectx, "os")
    IN    2 * One(~Falsy(ctx.lang) /\ Get(ectx, "lang") = ctx.lang)
        + 2 * One(tools_entry \cap tools_ctx # {})
        + One(/\ ctx.python # <<>>
              /\ \E i \in 1..Len(py_list) : StartsWith(py_list[i], ctx.python))
        + One(~Falsy(ctx.os) /\ ctx.os \in Range(os_list))

\* the weights of score_xpu, in tenths
REGEX_BONUS == 100
KEYWORD_WEIGHT == 10
CONTEXT_WEIGHT == 15
ATOMS_BIAS == 5

\* score_xpu; the score is counted in tenths (10.0 is 100, 1.5 is 15)
score_xpu(entry, log_snippet, ctx) ==
    LET signals == entry.signals
        regexes == GetList(signals, "regex")
        keywords == GetList(signals, "keywords")
        m == IF regexes # <<>> THEN _match_regex(log_snippet, regexes)
             ELSE [raised |-> None, ret |-> FALSE]
    IN  IF m.raised # None THEN [raised |-> m.raised, ret |-> 0]
        ELSE [raised |-> None,
              ret |->   REGEX_BONUS * One(m.ret)
                      + KEYWORD_WEIGHT * _keyword_score(log_snippet, keywords)
                      + CONTEXT_WEIGHT * _context_match_score(entry, ctx)
                      + ATOMS_BIAS * One(entry.atoms # <<>>)]

V_3810 == <<"3", ".", "8", ".", "1", "0">>

\* entries as load_xpu_entries reads them
XE_PIP ==
    XpuEntry("xpu_1",
             [lang |-> "python", tools |-> <<"pip">>, python |-> <<V_38>>,
              os |-> <<"linux">>],
             [regex |-> <<RE_ERROR>>,
              keywords |-> <<LowerStr(T_MODULE_NOT_FOUND)>>],
             <<"pin numpy">>, <<XpuAtom("pip_install", [name |-> "numpy"])>>)
XE_BROKEN ==
    XpuEntry("xpu_2",
             [lang |-> "python", tools |-> <<"pip", "poetry">>,
              python |-> <<V_3810, V_310>>],
             [regex |-> <<RE_UNTERMINATED, RE_MODULE>>,
              keywords |-> <<T_MODULE_NOT_FOUND, T_SETUP_PY>>],
             <<"use a venv">>, <<>>)
XE_TOO_LARGE ==
    XpuEntry("xpu_3",
             [lang |-> "python"],
             [regex |-> <<RE_TOO_LARGE, RE_ERROR>>],
             <<"retry">>, <<XpuAtom("retry", EMPTY_ARGS)>>)
XE_MVN ==
    XpuEntry("xpu_4",
             [lang |-> "java", tools |-> <<"mvn">>, os |-> <<"linux", "mac">>],
             [keywords |-> <<T_SETUP_PY>>],
             <<"use mvn -U">>, <<>>)
XE_PLAIN ==
    XpuEntry("xpu_5",
             [lang |-> "python", python |-> <<V_38>>],
             [regex |-> <<RE_MODULE>>],
             <<"install setuptools">>, <<XpuAtom("pip_install", [name |-> "x"])>>)
ScoredEntries == {XE_PIP, XE_BROKEN, XE_TOO_LARGE, XE_MVN, XE_PLAIN}

ScoreContexts ==
    {XpuContext(None, None, <<>>, <<>>),
     XpuContext("python", "linux", V_38, <<"pip">>),
     XpuContext("python", None, V_3810, <<"poetry", "conda">>),
     XpuContext("java", "mac", <<>>, <<"mvn">>)}

ScoreSnippets == {S_EMPTY, S_ERR, OBS_NUMPY}

\* seq[:n] for n >= 0
Take_Whole(seq, n) == seq

Take(seq, n) == SubSeq(seq, 1, IF n < Len(seq) THEN n ELSE Len(seq))

\* list.sort(key=score, reverse=True) keeps entries of equal score in
\* their order in the list: whether index a comes before index b
SortsBefore_TiesReversed(scores, a, b) ==
    scores[a] > scores[b] \/ (scores[a] = scores[b] /\ a > b)

SortsBefore(scores, a, b) ==
    scores[a] > scores[b] \/ (scores[a] = scores[b] /\ a < b)

\* the indexes idxs of the scored list, sorted
SortedByScore(scores, idxs) ==
    [p \in 1..Cardinality(idxs) |->
        CHOOSE a \in idxs :
            Cardinality({b \in idxs : SortsBefore(scores, b, a)}) = p - 1]

\* retrieve_xpu_candidates; k and prefer_atoms are its keyword arguments
retrieve_xpu_candidates(entries, log_snippet, ctx, k, prefer_atoms) ==
    LET outs == [i \in 1..Len(entries) |->
                    score_xpu(entries[i], log_snippet, ctx)]
        raising == {i \in 1..Len(entries) : outs[i].raised # None}
        scores == [i \in 1..Len(entries) |-> outs[i].ret]
        with_atoms == {i \in 1..Len(entries) : entries[i].atoms # <<>>}
        without_atoms == {i \in 1..Len(entries) : entries[i].atoms = <<>>}
        first == Take(SortedByScore(scores, with_atoms), k)
        picked ==
            IF prefer_atoms
            THEN first \o
                 (IF Len(first) < k
                  THEN Take(SortedByScore(scores, without_atoms),
                            k - Len(first))
                  ELSE <<>>)
            ELSE Take(SortedByScore(scores, 1..Len(entries)), k)
    IN  IF raising # {}
        THEN [raised |-> outs[CHOOSE i \in raising :
                                 \A j \in raising : i <= j].raised,
              ret |-> <<>>]
        ELSE [raised |-> None,
              ret |-> [p \in 1..Len(picked) |-> entries[picked[p]]]]

\* the default of k
DEFAULT_K == 3

\* lists of entries with distinct ids, as loaded from a file
EntryLists ==
    UNION {{l \in [1..n -> ScoredEntries] : Injective(l)} : n \in 0..MaxKb}

CandidateContexts ==
    {XpuContext(None, None, <<>>, <<>>),
     XpuContext("python", "linux", V_38, <<"pip">>)}

CandidateKs == 0..DEFAULT_K

InitMatch ==
    /\ telemetry_column = FALSE
    /\ xpu_entries = {}
    /\ vector_store = FALSE
    /\ last_query = NO_QUERY
    /\ session_used_ids = {}
    /\ call = [op |-> "init"]
    /\ pc = no_conc.pc
    /\ op = no_conc.op
    /\ txn = no_conc.txn
    /\ pool_used = no_conc.pool_used
    /\ done_calls = no_conc.done_calls

\* The matcher and the scorer are pure and keep nothing between calls:
\* a behaviour makes one call, from the state after construction.
Retrieve(knowledge_base, observation, current_files) ==
    /\ call.op = "init"
    /\ call' = [op |-> "retrieve", knowledge_base |-> knowledge_base,
                observation |-> observation, current_files |-> current_files,
                raised |-> None,
                ret |-> retrieve(knowledge_base, observation, current_files)]
    /\ UNCHANGED <<telemetry_column, xpu_entries, handler_vars, conc_vars>>

ScoreXpu(entry, log_snippet, ctx) ==
    /\ call.op = "init"
    /\ LET out == score_xpu(entry, log_snippet, ctx)
       IN call' = [op |-> "score_xpu", entry |-> entry,
                    log_snippet |-> log_snippet, ctx |-> ctx,
                    raised |-> out.raised, ret |-> out.ret]
    /\ UNCHANGED <<telemetry_column, xpu_entries, handler_vars, conc_vars>>

RetrieveXpuCandidates(entries, log_snippet, ctx, k, prefer_atoms) ==
    /\ call.op = "init"
    /\ LET out == retrieve_xpu_candidates(entries, log_snippet, ctx, k,
                                          prefer_atoms)
       IN call' = [op |-> "retrieve_xpu_candidates", entries |-> entries,
                    log_snippet |-> log_snippet, ctx |-> ctx, k |-> k,
                    prefer_atoms |-> prefer_atoms,
                    raised |-> out.raised, ret |-> out.ret]
    /\ UNCHANGED <<telemetry_column, xpu_entries, handler_vars, conc_vars>>

NextMatch ==
    \/ \E kb \in KnowledgeBases, o \in MatchObservations, f \in FileLists :
           Retrieve(kb, o, f)
    \/ \E e \in ScoredEntries, s \in ScoreSnippets, ctx \in ScoreContexts :
           ScoreXpu(e, s, ctx)
    \/ \E l \in EntryLists, s \in ScoreSnippets, ctx \in CandidateContexts,
          k \in CandidateKs, prefer_atoms \in BOOLEAN :
           RetrieveXpuCandidates(l, s, ctx, k, prefer_atoms)

SpecMatch == InitMatch /\ [][NextMatch]_vars

----------------------------------------------------------------------------
(* The renderers (xpu_adapter.py), called on atoms of every kind, of an   *)
(* unknown kind, and with args that are null, empty, incomplete, or hold  *)
(* an empty string or a null.                                             *)

\* entries to render hold up to this many atoms
MaxAtoms == 2

AtomNames ==
    {"pip_pin", "pip_install", "set_pytest_flag", "set_env", "set_umask",
     "set_django_setting", "or_upgrade_pkg", "apt_install", ""}

AtomArgs ==
    {ARGS_NONE, EMPTY_ARGS,
     [name |-> "numpy"], [name |-> "numpy", spec |-> "==1.26"],
     [name |-> ""], [name |-> None],
     [name |-> "x", value |-> "1"], [name |-> "", value |-> "1"],
     [name |-> "x", value |-> None],
     [key |-> "K", value |-> "v"], [key |-> "", value |-> "v"],
     [key |-> "K"], [key |-> "K", value |-> None], [value |-> "022"],
     [name |-> "p", min_version |-> "2"], [name |-> "p", min_version |-> ""],
     [name |-> "", min_version |-> "2"]}

RenderAtoms == {XpuAtom(n, a) : n \in AtomNames, a \in AtomArgs}

\* the atoms of the entries to render
EntryAtoms ==
    {XpuAtom("pip_pin", [name |-> "numpy", spec |-> "==1.26"]),
     XpuAtom("set_env", [key |-> "K", value |-> "v"]),
     XpuAtom("set_env", [key |-> "", value |-> "v"]),
     XpuAtom("set_django_setting", [key |-> "K", value |-> None]),
     XpuAtom("apt_install", [name |-> "numpy"]),
     XpuAtom("set_umask", ARGS_NONE)}

RenderEntries ==
    {XpuEntry("xpu_1", [lang |-> "python"], EMPTY_ARGS, <<"advice">>, atoms) :
        atoms \in UNION {[1..n -> EntryAtoms] : n \in 0..MaxAtoms}}

InitRender == InitMatch

\* The renderers are pure: a behaviour makes one call.
RenderAtomToCommands(atom) ==
    /\ call.op = "init"
    /\ call' = [op |-> "render_atom_to_commands", atom |-> atom,
                raised |-> None, ret |-> render_atom_to_commands(atom)]
    /\ UNCHANGED <<telemetry_column, xpu_entries, handler_vars, conc_vars>>

RenderEntryCommands(entry) ==
    /\ call.op = "init"
    /\ call' = [op |-> "render_entry_commands", entry |-> entry,
                raised |-> None, ret |-> render_entry_commands(entry)]
    /\ UNCHANGED <<telemetry_column, xpu_entries, handler_vars, conc_vars>>

NextRender ==
    \/ \E atom \in RenderAtoms : RenderAtomToCommands(atom)
    \/ \E entry \in RenderEntries : RenderEntryCommands(entry)

SpecRender == InitRender /\ [][NextRender]_vars

----------------------------------------------------------------------------
(* retrieve_hints on long observations: one call of a handler, on texts   *)
(* of up to 10,000 characters with and without whitespace around them.    *)

DIGITS == <<"0", "1", "2", "3", "4", "5", "6", "7", "8", "9">>

\* a text of n characters that starts like S_ERR and goes on with digits
\* that do not repeat with a short period
LongText(n) ==
    [i \in 1..n |->
        IF i <= Len(S_ERR) THEN S_ERR[i]
        ELSE DIGITS[((i + (i \div 10) + (i \div 100) + (i \div 1000)) % 10) + 1]]

TextLengths ==
    {0, 1, Len(S_ERR), max_chars \div 2, max_chars - 2, max_chars - 1,
     max_chars, max_chars + 1, max_chars + 2, max_chars + Len(S_ERR),
     2 * max_chars, 10000}

LeadingWhitespace == {<<>>, <<" ">>, <<"\n", "\t">>}
TrailingWhitespace == {<<>>, <<"\n">>, <<" ", " ">>}

LongObservations ==
    {lead \o LongText(n) \o trail :
        lead \in LeadingWhitespace, n \in TextLengths,
        trail \in TrailingWhitespace}

\* the table the indexing script filled before the session
IndexedTable ==
    upsert_entry({}, EntryOf("xpu_1", CONTENT_PIP), <<1, 0>>).table

InitLong ==
    /\ telemetry_column \in BOOLEAN
    /\ xpu_entries = IndexedTable
    /\ vector_store \in BOOLEAN
    /\ last_query = NO_QUERY
    /\ session_used_ids = {}
    /\ call = [op |-> "init"]
    /\ pc = no_conc.pc
    /\ op = no_conc.op
    /\ txn = no_conc.txn
    /\ pool_used = no_conc.pool_used
    /\ done_calls = no_conc.done_calls

NextLong ==
    \E sandbox_res \in LongObservations :
        call.op = "init" /\ RetrieveHints(sandbox_res)

SpecLong == InitLong /\ [][NextLong]_vars

----------------------------------------------------------------------------
(* The per-turn protocol of the agent loop that owns the handler: each    *)
(* turn calls retrieve_hints on the new observation and then              *)
(* update_realtime_feedback(ids of the previous turn, ids of this turn).  *)
(* The ids of the previous turn are those of the last call record.        *)

\* the table the indexing script filled before the session
TurnsTable ==
    upsert_entry(IndexedTable, EntryOf("xpu_2", CONTENT_UMASK), <<0, 1>>).table

InitTurns ==
    /\ telemetry_column \in BOOLEAN
    /\ xpu_entries = TurnsTable
    /\ vector_store \in BOOLEAN
    /\ last_query = NO_QUERY
    /\ session_used_ids = {}
    /\ call = [op |-> "init", ret |-> EMPTY_RETURN]
    /\ pc = no_conc.pc
    /\ op = no_conc.op
    /\ txn = no_conc.txn
    /\ pool_used = no_conc.pool_used
    /\ done_calls = no_conc.done_calls

Turn(sandbox_res) ==
    \E out \in retrieve_hints(xpu_entries, telemetry_column, vector_store,
                              last_query, session_used_ids, sandbox_res) :
        LET last_ids == call.ret[2]
            current_ids == out.ret[2]
        IN  /\ xpu_entries' =
                   update_realtime_feedback(out.table, telemetry_column,
                                            vector_store, last_ids, current_ids)
            /\ CountersWithin(xpu_entries')
            /\ last_query' = out.last_query
            /\ session_used_ids' = out.session_used_ids
            /\ call' = [op |-> "turn", sandbox_res |-> sandbox_res,
                        stage |-> out.stage, ret |-> out.ret,
                        last_ids |-> last_ids]
            /\ UNCHANGED <<telemetry_column, vector_store, conc_vars>>

NextTurns == \E sandbox_res \in Observations : Turn(sandbox_res)

SpecTurns == InitTurns /\ [][NextTurns]_vars


----------------------------------------------------------------------------
(* get_llm_response (utils/llm.py): one call, statement by statement.     *)
(* Here call holds the call in progress: the two environment values, the  *)
(* position in the function (at), the failure counter, the requests sent  *)
(* so far with what each produced, and the returned pair once at is       *)
(* "returned".                                                            *)

max_retry == 5

\* os.environ.get: unset, set to the empty string, or set
EnvValues == {None, "", "set"}

\* what one request can produce: requests raises, raise_for_status raises,
\* the body carries "error", or a completion with or without "usage"
Responses ==
    {[kind |-> "ConnectionError", has_usage |-> FALSE, content |-> None,
      total_tokens |-> 0],
     [kind |-> "HTTPError", has_usage |-> FALSE, content |-> None,
      total_tokens |-> 0],
     [kind |-> "error_body", has_usage |-> FALSE, content |-> None,
      total_tokens |-> 0],
     [kind |-> "ok", has_usage |-> TRUE, content |-> "pip install numpy",
      total_tokens |-> 7],
     [kind |-> "ok", has_usage |-> FALSE, content |-> "pip install numpy",
      total_tokens |-> 0]}

EMPTY_RESULT == <<<<None>>, [total_tokens |-> 0]>>

DEFAULT_USAGE ==
    [total_tokens |-> 0, prompt_tokens |-> 0, completion_tokens |-> 0]

\* [result_text], usage_data of a completion
Completion(response) ==
    <<<<response.content>>,
      IF response.has_usage
      THEN [total_tokens |-> response.total_tokens,
            prompt_tokens |-> response.total_tokens - 1,
            completion_tokens |-> 1]
      ELSE DEFAULT_USAGE>>

\* the test that ends the retries, made after count was incremented
Exhausted_AfterOneMore(count) == count > max_retry + 1

Exhausted(count) == count > max_retry

InitLlm ==
    /\ telemetry_column = FALSE
    /\ xpu_entries = {}
    /\ vector_store = FALSE
    /\ last_query = NO_QUERY
    /\ session_used_ids = {}
    /\ \E key \in EnvValues, base_url \in EnvValues :
           call = [op |-> "get_llm_response", key |-> key,
                   base_url |-> base_url, at |-> "start", count |-> 0,
                   requests |-> <<>>, ret |-> EMPTY_RESULT]
    /\ pc = no_conc.pc
    /\ op = no_conc.op
    /\ txn = no_conc.txn
    /\ pool_used = no_conc.pool_used
    /\ done_calls = no_conc.done_calls

\* if not key or not base_url: return [None], {"total_tokens": 0}
CheckCredentials ==
    /\ call.at = "start"
    /\ call' = IF Falsy(call.key) \/ Falsy(call.base_url)
               THEN [call EXCEPT !.at = "returned", !.ret = EMPTY_RESULT]
               ELSE [call EXCEPT !.at = "request"]
    /\ UNCHANGED <<telemetry_column, xpu_entries, handler_vars, conc_vars>>

\* the body of the try: one POST, then return or raise
Request(response) ==
    /\ call.at = "request"
    /\ call' = IF response.kind = "ok"
               THEN [call EXCEPT !.requests = Append(@, response),
                                 !.at = "returned",
                                 !.ret = Completion(response)]
               ELSE [call EXCEPT !.requests = Append(@, response),
                                 !.at = "except"]
    /\ UNCHANGED <<telemetry_column, xpu_entries, handler_vars, conc_vars>>

\* except Exception: count the failure, give up after max_retry
Except ==
    /\ call.at = "except"
    /\ call' = IF Exhausted(call.count + 1)
               THEN [call EXCEPT !.count = @ + 1, !.at = "returned",
                                 !.ret = EMPTY_RESULT]
               ELSE [call EXCEPT !.count = @ + 1, !.at = "sleep"]
    /\ UNCHANGED <<telemetry_column, xpu_entries, handler_vars, conc_vars>>

\* time.sleep(3), then the next turn of while True
Sleep ==
    /\ call.at = "sleep"
    /\ call' = [call EXCEPT !.at = "request"]
    /\ UNCHANGED <<telemetry_column, xpu_entries, handler_vars, conc_vars>>

NextLlm ==
    \/ CheckCredentials
    \/ \E response \in Responses : Request(response)
    \/ Except
    \/ Sleep

SpecLlm == InitLlm /\ [][NextLlm]_vars

\* the function is sequential code: a statement that can run does run
FairSpecLlm == SpecLlm /\ WF_vars(NextLlm)

----------------------------------------------------------------------------
(* Reading the table in the properties below *)

Stored(tbl, id) == \E r \in tbl : r.id = id
RowOf(tbl, id) == CHOOSE r \in tbl : r.id = id
CounterOf(tbl, id, field) ==
    IF Stored(tbl, id) THEN Counter(RowOf(tbl, id), field) ELSE 0

\* the rows of tbl without their telemetry
ContentOf(tbl) == {[r EXCEPT !.telemetry = NULL] : r \in tbl}

IsRetrieve(c) == c.op = "retrieve_hints"
\* the stages of retrieve_hints in which the store ran the search query
SearchRan(stage) == stage \in {"no_results", "selected", "telemetry_failed"}

----------------------------------------------------------------------------
(* C1: on a handler with a store, retrieve_hints with a snippet S that    *)
(* contains an error keyword, called again with the same S as the very    *)
(* next query, returns ("", []) the second time, without a store search   *)
(* and without a hits increment, whatever the outcome of the first call.  *)

C1_SecondQuerySuppressed ==
    [][(/\ IsRetrieve(call) /\ IsRetrieve(call')
        /\ vector_store
        /\ call'.sandbox_res = call.sandbox_res
        /\ _check_has_error(LogSnippet(call.sandbox_res)))
       => (/\ call'.ret = EMPTY_RETURN
           /\ ~SearchRan(call'.stage)
           /\ xpu_entries' = xpu_entries)]_vars

\* what the code does: the second call is suppressed when the first one
\* selected entries, the only outcome that sets last_query
C1_SuppressedAfterSelection ==
    [][(/\ IsRetrieve(call) /\ IsRetrieve(call')
        /\ call.stage = "selected"
        /\ LogSnippet(call'.sandbox_res) = LogSnippet(call.sandbox_res))
       => (/\ call'.ret = EMPTY_RETURN
           /\ call'.stage = "skipped"
           /\ xpu_entries' = xpu_entries)]_vars

----------------------------------------------------------------------------
(* C2: update_realtime_feedback(previous, current) adds exactly 1 to      *)
(* failures of each stored id in both lists and exactly 1 to successes of *)
(* each stored id only in previous; it changes no other counter, no hits, *)
(* and no other entry.  update([], L2) changes nothing.                   *)

FeedbackEffect(last_ids, current_ids) ==
    /\ ContentOf(xpu_entries') = ContentOf(xpu_entries)
    /\ \A id \in Ids :
        Stored(xpu_entries, id) =>
            /\ CounterOf(xpu_entries', id, "failures") =
                   CounterOf(xpu_entries, id, "failures")
                       + One(id \in Range(last_ids) \cap Range(current_ids))
            /\ CounterOf(xpu_entries', id, "successes") =
                   CounterOf(xpu_entries, id, "successes")
                       + One(id \in Range(last_ids) \ Range(current_ids))
            /\ CounterOf(xpu_entries', id, "hits") =
                   CounterOf(xpu_entries, id, "hits")

C2_FeedbackAttribution ==
    [][\A last_ids, current_ids \in IdListsNoDup :
          (vector_store /\ UpdateRealtimeFeedback(last_ids, current_ids))
              => FeedbackEffect(last_ids, current_ids)]_vars

\* the same on a table that has a telemetry column
C2_FeedbackAttributionWithColumn ==
    [][\A last_ids, current_ids \in IdListsNoDup :
          (/\ vector_store /\ telemetry_column
           /\ UpdateRealtimeFeedback(last_ids, current_ids))
              => FeedbackEffect(last_ids, current_ids)]_vars

----------------------------------------------------------------------------
(* C3: from zero counters, "xpu_1" selected in turns 1 and 2 has          *)
(* failures = 1 and successes = 0 after the feedback update of turn 2;    *)
(* absent from turn 3, it has successes = 1 and failures = 1 after the    *)
(* feedback update of turn 3.                                             *)

ThreeTurnSteps(x) ==
    \A last_ids, current_ids \in IdListsNoDup :
        (/\ vector_store
         /\ Stored(xpu_entries, x)
         /\ UpdateRealtimeFeedback(last_ids, current_ids))
        =>
        /\ (/\ x \in Range(last_ids) \cap Range(current_ids)
            /\ CounterOf(xpu_entries, x, "failures") = 0
            /\ CounterOf(xpu_entries, x, "successes") = 0)
           => (/\ CounterOf(xpu_entries', x, "failures") = 1
               /\ CounterOf(xpu_entries', x, "successes") = 0)
        /\ (/\ x \in Range(last_ids) \ Range(current_ids)
            /\ CounterOf(xpu_entries, x, "failures") = 1
            /\ CounterOf(xpu_entries, x, "successes") = 0)
           => (/\ CounterOf(xpu_entries', x, "successes") = 1
               /\ CounterOf(xpu_entries', x, "failures") = 1)

C3_ThreeTurnScenario == [][ThreeTurnSteps("xpu_1")]_vars

\* the same on a table that has a telemetry column
C3_ThreeTurnScenarioWithColumn ==
    [][telemetry_column => ThreeTurnSteps("xpu_1")]_vars

----------------------------------------------------------------------------
(* C4: when retrieve_hints returns a non-empty id list, on a table        *)
(* created by create_xpu_table, the hits counter of every returned id has *)
(* grown by exactly 1 when the call returns, and no other hits counter    *)
(* has changed.                                                           *)

HitsEffect(ids) ==
    \A id \in Ids :
        CounterOf(xpu_entries', id, "hits") =
            CounterOf(xpu_entries, id, "hits") + One(id \in Range(ids))

C4_HitsAtSelection ==
    [][(/\ IsRetrieve(call')
        /\ call'.ret[2] # <<>>
        /\ ~telemetry_column)
       => HitsEffect(call'.ret[2])]_vars

\* the same on a table that has a telemetry column
C4_HitsAtSelectionWithColumn ==
    [][(/\ IsRetrieve(call')
        /\ call'.ret[2] # <<>>
        /\ telemetry_column)
       => HitsEffect(call'.ret[2])]_vars

----------------------------------------------------------------------------
(* C5: every telemetry counter of every stored entry is a non-negative    *)
(* integer and never decreases, over all store and session operations;    *)
(* an entry is never deleted, and upserting an existing id again does not *)
(* reset or lower its counters.                                           *)

CountersNatural ==
    \A r \in xpu_entries : \A f \in Fields : Counter(r, f) \in Nat

CountersGrow ==
    \A r \in xpu_entries :
        \E r2 \in xpu_entries' :
            /\ r2.id = r.id
            /\ \A f \in Fields : Counter(r2, f) >= Counter(r, f)

C5_CountersNeverDecrease == []CountersNatural /\ [][CountersGrow]_vars

\* an entry with a positive counter has been upserted again
C5_ReupsertKeepsCounters ==
    /\ call.op = "upsert_entry"
    /\ call.raised = None
    /\ \E r \in xpu_entries :
        /\ r.id = call.entry.id
        /\ Counter(r, "hits") >= 1
        /\ Counter(r, "failures") >= 1

----------------------------------------------------------------------------
(* C7: increment_telemetry(ids, field) adds exactly 1 to that field of    *)
(* every stored entry whose id occurs in ids, once per id also when the   *)
(* id is repeated; it leaves the other two fields, the content, the       *)
(* embedding and all other entries unchanged, creates no entry for an     *)
(* unknown id, and is a no-op for the empty list.                         *)

IncrementEffect(xpu_ids, field) ==
    /\ ContentOf(xpu_entries') = ContentOf(xpu_entries)
    /\ \A id \in Ids : \A f \in Fields :
        CounterOf(xpu_entries', id, f) =
            CounterOf(xpu_entries, id, f)
                + One(f = field /\ id \in Range(xpu_ids)
                                /\ Stored(xpu_entries, id))

C7_IncrementFrame ==
    [][\A xpu_ids \in IdLists, field \in Fields :
          IncrementTelemetry(xpu_ids, field)
              => IncrementEffect(xpu_ids, field)]_vars

\* the same on a table that has a telemetry column
C7_IncrementFrameWithColumn ==
    [][\A xpu_ids \in IdLists, field \in Fields :
          (telemetry_column /\ IncrementTelemetry(xpu_ids, field))
              => IncrementEffect(xpu_ids, field)]_vars

----------------------------------------------------------------------------
(* C9: after upsert_entry(E, emb) succeeds, get_entry(E.id) returns id,   *)
(* context, signals, advice_nl and atoms (as ordered name/args pairs)     *)
(* equal to E's; get_entry of an id that is not stored returns None.      *)

\* the atoms of an entry as ordered name/args pairs
AtomPairs(entry) ==
    [i \in 1..Len(entry.atoms) |->
        [name |-> entry.atoms[i].name, args |-> entry.atoms[i].args]]

ReturnsEntry(ret, entry) ==
    /\ ret # NOT_FOUND
    /\ ret.id = entry.id
    /\ ret.context = entry.context
    /\ ret.signals = entry.signals
    /\ ret.advice_nl = entry.advice_nl
    /\ ret.atoms = AtomPairs(entry)

GetAfterUpsert ==
    (/\ call.op = "upsert_entry"
     /\ call.raised = None
     /\ call'.op = "get_entry"
     /\ call'.xpu_id = call.entry.id)
    => ReturnsEntry(call'.ret, call.entry)

GetOfAbsentId ==
    (call.op = "get_entry" /\ ~Stored(xpu_entries, call.xpu_id))
        => call.ret = NOT_FOUND

C9_UpsertGetRoundTrip == []GetOfAbsentId /\ [][GetAfterUpsert]_vars

\* get_entry has returned an entry with two atoms, in their order
C9_GetReturnsOrderedAtoms ==
    /\ call.op = "get_entry"
    /\ call.ret # NOT_FOUND
    /\ call.ret.id = "xpu_2"
    /\ Len(call.ret.atoms) = 2
    /\ call.ret.atoms[1].name = "set_umask"
    /\ call.ret.atoms[2].args = [key |-> "HOME", value |-> "/tmp"]

----------------------------------------------------------------------------
(* C6: increment_telemetry calls that run concurrently, with overlapping  *)
(* id lists on the same field, never lose an update: once all calls have  *)
(* completed, the counter of each stored id has grown by exactly the      *)
(* number of calls whose list contained it, in every interleaving.        *)

Quiescent == \A s \in Sessions : pc[s] = "idle"

CountersMatchCalls ==
    \A id \in Ids : \A f \in Fields :
        CounterOf(xpu_entries, id, f) = done_calls[id][f]

C6_NoLostUpdates == Quiescent => CountersMatchCalls

\* the same on a table that has a telemetry column
C6_NoLostUpdatesWithColumn ==
    (telemetry_column /\ Quiescent) => CountersMatchCalls

----------------------------------------------------------------------------
(* C8: upsert_entry with an embedding whose length is not EMBEDDING_DIM   *)
(* fails with the dimension-mismatch error and leaves the store           *)
(* unchanged; no connection has been acquired or is left checked out.     *)

WrongDimensionUpsert(s) ==
    (/\ pc[s] = "called"
     /\ op[s].name = "upsert_entry"
     /\ Len(op[s].embedding) # EMBEDDING_DIM
     /\ pc'[s] # "called")
    => (/\ pc'[s] = "idle"
        /\ op'[s].raised = "ValueError"
        /\ xpu_entries' = xpu_entries
        /\ txn' = txn
        /\ pool_used' = pool_used)

\* outside a call a session holds no connection and no open transaction
NothingCheckedOut ==
    \A s \in Sessions :
        pc[s] \in {"idle", "called"} => (s \notin pool_used /\ txn[s] = NO_TXN)

C8_WrongDimensionRejected ==
    []NothingCheckedOut /\ [][\A s \in Sessions : WrongDimensionUpsert(s)]_vars

\* an upsert was rejected for its dimension while another session held a
\* connection with an open transaction
C8_RejectedWhilePoolInUse ==
    \E s, t \in Sessions :
        /\ pc[s] = "idle"
        /\ op[s].name = "upsert_entry"
        /\ op[s].raised = "ValueError"
        /\ pool_used = {t}
        /\ txn[t] # NO_TXN

----------------------------------------------------------------------------
(* C10: upsert_entry is an insert-or-replace keyed by id: the store holds *)
(* exactly one entry per id; the same upsert applied twice leaves what    *)
(* one application leaves; content and embedding are replaced together,   *)
(* so a concurrent search never sees the content of one version with the  *)
(* embedding of another; a failed upsert leaves the previous version.     *)

\* content and embedding of the versions ever written for an id
VersionsOf(id) ==
    {InsertedRow(InsertValues(u[1], u[2])) :
        u \in {v \in ConcUpserts : v[1].id = id /\ ~DimensionMismatch(v[2])}}
    \cup {[r EXCEPT !.telemetry = NULL] : r \in {x \in IndexedRows : x.id = id}}

OneEntryPerId ==
    \A r1, r2 \in xpu_entries : r1.id = r2.id => r1 = r2

RowsAreVersions ==
    \A r \in xpu_entries : [r EXCEPT !.telemetry = NULL] \in VersionsOf(r.id)

\* what a search returned is, row by row, what it returns of one version
ReadersSeeVersions ==
    \A s \in Sessions :
        (op[s].name = "search" /\ op[s].raised = None) =>
            \A i \in 1..Len(op[s].ret) :
                \E v \in VersionsOf(op[s].ret[i].id) :
                    op[s].ret[i] = ResultOf(v, op[s].query_embedding)

UpsertIdempotent ==
    \A u \in {v \in ConcUpserts : ~DimensionMismatch(v[2])} :
        LET once == UpsertStatement(xpu_entries, u[1], u[2])
        IN  UpsertStatement(once, u[1], u[2]) = once

\* the step in which an upsert fails, and the return of the failed call
FailedUpsertKeepsRows ==
    \A s \in Sessions :
        (/\ op'[s].name = "upsert_entry"
         /\ op'[s].raised # None
         /\ pc'[s] # pc[s])
        => xpu_entries' = xpu_entries

C10_UpsertReplacesAtomically ==
    /\ [](OneEntryPerId /\ RowsAreVersions /\ ReadersSeeVersions
            /\ UpsertIdempotent)
    /\ [][FailedUpsertKeepsRows]_vars

\* a search has read xpu_1 while the transaction of a replacing upsert of
\* xpu_1 was open, and another replace of xpu_1 had been committed before
C10_SearchDuringReplace ==
    \E s, t \in Sessions :
        /\ pc[s] = "finally"
        /\ op[s].name = "search"
        /\ \E i \in 1..Len(op[s].ret) :
               /\ op[s].ret[i].id = "xpu_1"
               /\ op[s].ret[i].context.lang = "java"
        /\ pc[t] = "executed"
        /\ op[t].name = "upsert_entry"
        /\ op[t].entry.id = "xpu_1"

----------------------------------------------------------------------------
(* C11: for every query embedding, k >= 0 and min_similarity, search      *)
(* returns at most k results, each with similarity >= min_similarity, in  *)
(* descending similarity order, no id twice, and they are exactly the k   *)
(* most similar among the entries that pass the structural filters and    *)
(* the threshold.                                                         *)

IsSearch(c) == c.op = "search"

\* the rows that pass the filters of the call and reach its threshold
Passing(c) ==
    {r \in xpu_entries :
        /\ ContextFilter(r, c.ctx)
        /\ PyGe(Similarity(r.embedding, c.query_embedding), c.min_similarity)}

TopKOfPassing(c) ==
    LET ret == c.ret
    IN  /\ Len(ret) <= c.k
        /\ \A i \in 1..Len(ret) : PyGe(ret[i].similarity, c.min_similarity)
        /\ \A i, j \in 1..Len(ret) :
               i < j => PyGe(ret[i].similarity, ret[j].similarity)
        /\ \A i, j \in 1..Len(ret) : ret[i].id = ret[j].id => i = j
        /\ Len(ret) = Min(c.k, Cardinality(Passing(c)))
        /\ \A i \in 1..Len(ret) : \E r \in Passing(c) : r.id = ret[i].id
        /\ \A r \in Passing(c) :
               (\A i \in 1..Len(ret) : ret[i].id # r.id) =>
                   \A i \in 1..Len(ret) :
                       PyGe(ret[i].similarity,
                            Similarity(r.embedding, c.query_embedding))

C11_SearchTopK == IsSearch(call) => TopKOfPassing(call)

\* the same when neither the query nor a stored embedding is all zeros
C11_SearchTopKNonZero ==
    (/\ IsSearch(call)
     /\ call.query_embedding \notin ZeroEmbeddings
     /\ \A r \in xpu_entries : r.embedding \notin ZeroEmbeddings)
    => TopKOfPassing(call)

----------------------------------------------------------------------------
(* C12: every entry returned by search satisfies every structural         *)
(* predicate the request context supplies: its language equals the        *)
(* request language; its tool list meets the request's tools; one of its  *)
(* declared versions has the whole request version string as a prefix.    *)
(* Entries failing a supplied predicate are never returned, and a         *)
(* predicate that is not supplied filters nothing.                        *)

\* p is a prefix of v
IsPrefix(p, v) == Len(p) <= Len(v) /\ SubSeq(v, 1, Len(p)) = p

StructuralPredicates(row, ctx) ==
    /\ (~Falsy(ctx.lang) =>
            "lang" \in DOMAIN row.context /\ row.context.lang = ctx.lang)
    /\ (ctx.tools # <<>> =>
            Range(ctx.tools) \cap Range(JsonArray(row.context, "tools")) # {})
    /\ (ctx.python # <<>> =>
            \E v \in Range(JsonArray(row.context, "python")) :
                IsPrefix(ctx.python, v))

ReturnsStructuralMatches(c) ==
    LET eligible == {r \in xpu_entries :
                        /\ StructuralPredicates(r, c.ctx)
                        /\ SqlGe(Similarity(r.embedding, c.query_embedding),
                                 c.min_similarity)}
    IN  /\ \A i \in 1..Len(c.ret) : \E r \in eligible : r.id = c.ret[i].id
        /\ Len(c.ret) = Min(c.k, Cardinality(eligible))

C12_StructuralFilters == IsSearch(call) => ReturnsStructuralMatches(call)

\* the same for requests whose version string has at most one character
C12_StructuralFiltersShortVersion ==
    (IsSearch(call) /\ Len(call.ctx.python) <= 1)
        => ReturnsStructuralMatches(call)

----------------------------------------------------------------------------
(* C13: the pool is bounded to 5 connections: never do more than 5 store  *)
(* operations hold one, and a caller that asks for one while all 5 are in *)
(* use blocks until one is released (served in FIFO order) and fails only *)
(* after an acquisition timeout.                                          *)

PoolBounded == Cardinality(pool_used) <= POOL_MAX

\* a caller that asks while all connections are in use does not fail at
\* once: it is still waiting, or it has been given a connection
WaitsWhenExhausted ==
    \A s \in DOMAIN pc :
        (pc[s] = "called" /\ Cardinality(pool_used) = POOL_MAX)
            => op'[s].raised = None

C13_PoolBlocksWhenExhausted == []PoolBounded /\ [][WaitsWhenExhausted]_vars

\* the bound alone
C13_PoolBounded == []PoolBounded

----------------------------------------------------------------------------
(* C15: increment_telemetry logs and swallows every failure (a failing    *)
(* statement, an unreachable store, no connection to be had from the      *)
(* pool): it never propagates an error to its caller.                     *)

C15_TelemetryNeverRaises ==
    \A s \in DOMAIN op :
        op[s].name = "increment_telemetry" => op[s].raised = None

\* a failing statement is swallowed: the call goes on to its finally block
\* and returns normally
C15_StatementFailureSwallowed ==
    [][\A s \in DOMAIN pc :
          (/\ pc[s] = "acquired"
           /\ op[s].name = "increment_telemetry"
           /\ ~telemetry_column
           /\ pc'[s] # pc[s])
          => (pc'[s] = "finally" /\ op'[s].raised = None)]_vars

----------------------------------------------------------------------------
(* C14: retrieve_hints never raises: with no store configured, and when   *)
(* the embedding call or the store search fails (a query vector of a      *)
(* wrong length included), it returns ("", []).  With no store,           *)
(* update_realtime_feedback and finalize_session change nothing.          *)

RetrieveDegrades ==
    IsRetrieve(call) =>
        /\ call.raised = None
        /\ (call.stage \in {"skipped", "embedding_failed", "search_failed"}
                => call.ret = EMPTY_RETURN)
        /\ (~vector_store =>
                call.stage = "skipped" /\ call.ret = EMPTY_RETURN)

NoStoreNoEffect ==
    (~vector_store /\ call'.op \in {"retrieve_hints",
                                    "update_realtime_feedback",
                                    "finalize_session"})
    => UNCHANGED <<xpu_entries, last_query, session_used_ids>>

C14_RetrievalNeverRaises == []RetrieveDegrades /\ [][NoStoreNoEffect]_vars

\* the store search failed on a query for a stored entry
C14_SearchFailedReturnsEmpty ==
    /\ IsRetrieve(call)
    /\ vector_store
    /\ xpu_entries # {}
    /\ call.stage = "search_failed"
    /\ call.ret = EMPTY_RETURN

----------------------------------------------------------------------------
(* C16: for every loaded entry E and every snippet S, the empty one       *)
(* included, such that a declared regex of E matches S case-              *)
(* insensitively, retrieve(S, files) includes E exactly once for every    *)
(* file list: each advice line of E appears exactly once in the output.   *)

IsRetrieveExp(c) == c.op = "retrieve"

\* a declared regex of exp matches s, case-insensitively
RegexMatches(exp, s) ==
    \E i \in 1..Len(exp.signals.regex) :
        LET m == re_search(exp.signals.regex[i], s, TRUE)
        IN  m.raised = None /\ m.matched

Occurrences(seq, x) == Cardinality({j \in 1..Len(seq) : seq[j] = x})

IncludedOnce(c, exp) ==
    \A a \in Range(exp.advice_nl) :
        Occurrences(c.ret, KnowledgeBaseHint(a)) = 1

C16_RegexMatchIncludedOnce ==
    IsRetrieveExp(call) =>
        \A i \in 1..Len(call.knowledge_base) :
            RegexMatches(call.knowledge_base[i], call.observation)
                => IncludedOnce(call, call.knowledge_base[i])

\* the same for snippets that are not empty
C16_RegexMatchIncludedOnceNonEmpty ==
    (IsRetrieveExp(call) /\ call.observation # <<>>) =>
        \A i \in 1..Len(call.knowledge_base) :
            RegexMatches(call.knowledge_base[i], call.observation)
                => IncludedOnce(call, call.knowledge_base[i])

----------------------------------------------------------------------------
(* C17: retrieve(observation, files) emits the advice of a loaded entry   *)
(* if and only if a declared regex matches the observation (case-         *)
(* insensitive), or a declared keyword is a literal substring of the      *)
(* observation, or the current file names meet the declared keywords;     *)
(* the output is the advice of exactly the matching entries, each line    *)
(* wrapped with the marker, in load order, lines in declared order.       *)
(* Scenario: keywords ["ModuleNotFoundError"], advice ["pin numpy"] and   *)
(* the observation "ModuleNotFoundError: No module named 'numpy'" give    *)
(* exactly one advice string, which contains "pin numpy".                 *)

EntryMatches(exp, observation, current_files) ==
    \/ RegexMatches(exp, observation)
    \/ \E kw \in Range(exp.signals.keywords) : Contains(observation, kw)
    \/ Range(current_files) \cap Range(exp.signals.keywords) # {}

RECURSIVE AdviceOfMatching(_, _, _, _)
AdviceOfMatching(knowledge_base, i, observation, current_files) ==
    IF i > Len(knowledge_base) THEN <<>>
    ELSE (IF EntryMatches(knowledge_base[i], observation, current_files)
          THEN [j \in 1..Len(knowledge_base[i].advice_nl) |->
                   KnowledgeBaseHint(knowledge_base[i].advice_nl[j])]
          ELSE <<>>)
         \o AdviceOfMatching(knowledge_base, i + 1, observation, current_files)

EmitsAdviceOfMatching(c) ==
    c.ret = AdviceOfMatching(c.knowledge_base, 1, c.observation,
                             c.current_files)

NumpyScenario(c) ==
    (c.knowledge_base = <<EXP_NUMPY>> /\ c.observation = OBS_NUMPY)
        => c.ret = <<KnowledgeBaseHint("pin numpy")>>

C17_AdviceOfMatchingEntries ==
    IsRetrieveExp(call) => (EmitsAdviceOfMatching(call) /\ NumpyScenario(call))

\* the same for observations that are not empty
C17_AdviceOfMatchingEntriesNonEmpty ==
    (IsRetrieveExp(call) /\ call.observation # <<>>)
        => (EmitsAdviceOfMatching(call) /\ NumpyScenario(call))

----------------------------------------------------------------------------
(* C18: a malformed regex pattern is skipped and never fatal.  Whatever   *)
(* invalid patterns the entries declare, retrieve and score_xpu complete  *)
(* without raising, and their result is the one they give when the        *)
(* invalid patterns are absent: an invalid pattern matches nothing, and   *)
(* the other patterns and keywords are evaluated all the same.            *)

IsScoreXpu(c) == c.op = "score_xpu"

\* the re module compiles the pattern
ValidPattern(p) == re_search(p, <<>>, FALSE).raised = None

\* the pattern is one the re module rejects with re.error
ValidOrReError(p) == re_search(p, <<>>, FALSE).raised \in {None, "re.error"}

\* the entry, its invalid patterns taken out
WithoutInvalid(e) ==
    [e EXCEPT !.signals =
        [key \in DOMAIN e.signals |->
            IF key = "regex" THEN SelectSeq(e.signals[key], ValidPattern)
            ELSE e.signals[key]]]

RetrieveSkipsInvalid(c) ==
    /\ c.raised = None
    /\ c.ret = retrieve([i \in 1..Len(c.knowledge_base) |->
                            WithoutInvalid(c.knowledge_base[i])],
                        c.observation, c.current_files)

ScoreSkipsInvalid(c) ==
    /\ c.raised = None
    /\ c.ret = score_xpu(WithoutInvalid(c.entry), c.log_snippet, c.ctx).ret

C18_MalformedRegexSkipped ==
    /\ IsRetrieveExp(call) => RetrieveSkipsInvalid(call)
    /\ IsScoreXpu(call) => ScoreSkipsInvalid(call)

\* the same, for score_xpu only on entries whose invalid patterns are
\* rejected with re.error
C18_ReErrorSkipped ==
    /\ IsRetrieveExp(call) => RetrieveSkipsInvalid(call)
    /\ (/\ IsScoreXpu(call)
        /\ \A p \in Range(GetList(call.entry.signals, "regex")) :
               ValidOrReError(p))
           => ScoreSkipsInvalid(call)

----------------------------------------------------------------------------
(* C19: for every entry E, snippet S and context C, score_xpu(E, S, C)   *)
(* is 10.0 if any regex of E matches S, plus 1.0 for each keyword of E    *)
(* that is a case-insensitive substring of S, plus 1.5 times the context  *)
(* score, plus 0.5 if E has an atom; the context score is 2 if the        *)
(* languages are equal, plus 2 if the tool sets intersect, plus 1 if a    *)
(* version declared by E is a prefix of C's version, plus 1 if C's OS is  *)
(* in E's OS list.  Scores are counted in tenths.                         *)

AnyRegexMatches(e, s) ==
    \E p \in Range(GetList(e.signals, "regex")) :
        LET m == re_search(p, s, FALSE)
        IN  m.raised = None /\ m.matched

KeywordsIn(e, s) ==
    Cardinality({i \in 1..Len(GetList(e.signals, "keywords")) :
                    Contains(LowerStr(s),
                             LowerStr(GetList(e.signals, "keywords")[i]))})

\* the context score without its version term
ContextScoreOther(e, c) ==
      2 * One(Get(e.context, "lang") = c.lang)
    + 2 * One(Range(GetList(e.context, "tools")) \cap Range(c.tools) # {})
    + One(c.os \in Range(GetList(e.context, "os")))

\* a version declared by e is a prefix of c's version
DeclaredIsPrefix(e, c) ==
    /\ c.python # <<>>
    /\ \E v \in Range(GetList(e.context, "python")) : IsPrefix(v, c.python)

\* c's version is a prefix of a version declared by e
DeclaredHasPrefix(e, c) ==
    /\ c.python # <<>>
    /\ \E v \in Range(GetList(e.context, "python")) : IsPrefix(c.python, v)

ScoreWith(e, s, c, version_term) ==
      100 * One(AnyRegexMatches(e, s))
    + 10 * KeywordsIn(e, s)
    + 15 * (ContextScoreOther(e, c) + One(version_term))
    + 5 * One(e.atoms # <<>>)

C19_ScoreFormula ==
    (IsScoreXpu(call) /\ call.raised = None) =>
        call.ret = ScoreWith(call.entry, call.log_snippet, call.ctx,
                             DeclaredIsPrefix(call.entry, call.ctx))

\* the formula with the version term the other way round
C19_ScoreFormulaRequestPrefix ==
    (IsScoreXpu(call) /\ call.raised = None) =>
        call.ret = ScoreWith(call.entry, call.log_snippet, call.ctx,
                             DeclaredHasPrefix(call.entry, call.ctx))

----------------------------------------------------------------------------
(* C20: for every entry list, snippet, context and k >= 0,                *)
(* retrieve_xpu_candidates, with its default settings as well as with     *)
(* prefer_atoms=False, returns at most k entries, without duplicates, all *)
(* taken from the input list, ordered by descending composite score, with *)
(* entries of equal score in their input order.                           *)
(* As the code has it: that holds with prefer_atoms=False; with the       *)
(* default prefer_atoms=True the entries that have atoms come first and   *)
(* the entries without atoms after them, each group ordered by descending *)
(* score with equal scores in input order.                                *)

IsCandidates(c) == c.op = "retrieve_xpu_candidates" /\ c.raised = None

\* the place in the input list of the p-th returned entry
InputIndex(c, p) == CHOOSE i \in 1..Len(c.entries) : c.entries[i] = c.ret[p]

ScoreOf(c, e) == score_xpu(e, c.log_snippet, c.ctx).ret

AtMostKFromInput(c) ==
    /\ Len(c.ret) <= c.k
    /\ Injective(c.ret)
    /\ Range(c.ret) \subseteq Range(c.entries)

\* the returned entries p < q are in descending score, ties in input order
InScoreOrder(c, p, q) ==
    \/ ScoreOf(c, c.ret[p]) > ScoreOf(c, c.ret[q])
    \/ /\ ScoreOf(c, c.ret[p]) = ScoreOf(c, c.ret[q])
       /\ InputIndex(c, p) < InputIndex(c, q)

OrderedByScore(c) ==
    \A p, q \in 1..Len(c.ret) : p < q => InScoreOrder(c, p, q)

\* entries with atoms first, each group in score order
OrderedAtomsFirst(c) ==
    \A p, q \in 1..Len(c.ret) :
        p < q =>
            \/ c.ret[p].atoms # <<>> /\ c.ret[q].atoms = <<>>
            \/ /\ (c.ret[p].atoms = <<>>) = (c.ret[q].atoms = <<>>)
               /\ InScoreOrder(c, p, q)

----------------------------------------------------------------------------
(* C21: with prefer_atoms=True, retrieve_xpu_candidates, when it returns, *)
(* returns first the top-k entries that have atoms, by descending score;  *)
(* entries without atoms appear only when fewer than k entries have       *)
(* atoms, and then only as many of the highest-scoring ones as are needed *)
(* to reach k, after all the entries with atoms; each of the two sublists *)
(* is in descending score, equal scores in input order.                   *)

HasAtoms(e) == e.atoms # <<>>

\* entry e of the input list ranks before entry f: higher score, or the
\* same score and an earlier place in the list
RanksBefore(c, e, f) ==
    LET i == CHOOSE n \in 1..Len(c.entries) : c.entries[n] = e
        j == CHOOSE n \in 1..Len(c.entries) : c.entries[n] = f
    IN  \/ ScoreOf(c, e) > ScoreOf(c, f)
        \/ ScoreOf(c, e) = ScoreOf(c, f) /\ i < j

\* the returned entries of a group are the best of that group
BestOfGroup(c, group) ==
    \A e \in group \cap Range(c.ret) :
        \A f \in group \ Range(c.ret) : RanksBefore(c, e, f)

PreferRemediable(c) ==
    LET with_atoms == {e \in Range(c.entries) : HasAtoms(e)}
        without_atoms == {e \in Range(c.entries) : ~HasAtoms(e)}
        n_with == Min(c.k, Cardinality(with_atoms))
        n_without == Min(c.k - n_with, Cardinality(without_atoms))
    IN  /\ Len(c.ret) = n_with + n_without
        /\ \A p \in 1..Len(c.ret) : HasAtoms(c.ret[p]) <=> p <= n_with
        /\ Range(c.ret) \subseteq Range(c.entries)
        /\ BestOfGroup(c, with_atoms)
        /\ BestOfGroup(c, without_atoms)
        /\ \A p, q \in 1..Len(c.ret) :
               (p < q /\ HasAtoms(c.ret[p]) = HasAtoms(c.ret[q]))
                   => RanksBefore(c, c.ret[p], c.ret[q])

C21_PreferRemediable ==
    (IsCandidates(call) /\ call.prefer_atoms) => PreferRemediable(call)

\* a call pads one entry with atoms with the better of two entries without
C21_PaddedWithBestOfTwo ==
    /\ IsCandidates(call)
    /\ call.prefer_atoms
    /\ call.k = 2
    /\ Len(call.entries) = 3
    /\ Len(call.ret) = 2
    /\ HasAtoms(call.ret[1]) /\ ~HasAtoms(call.ret[2])
    /\ call.entries[1] \notin Range(call.ret)
    /\ ~HasAtoms(call.entries[1])

----------------------------------------------------------------------------
(* C22: render_atom_to_commands returns a list of commands without        *)
(* raising for every atom: of an unrecognized name, with args that are    *)
(* missing, null or empty, or without an argument its kind requires.  It  *)
(* returns the empty list exactly when the name is unrecognized or a      *)
(* required argument of the kind is missing.  render_entry_commands is    *)
(* the concatenation of the renders of the entry's atoms, in atom order.  *)
(* As the code has it: the list is also empty when the name of a          *)
(* set_pytest_flag, the key of a set_env or a set_django_setting, or the  *)
(* name or min_version of an or_upgrade_pkg is the empty string.          *)

IsRenderAtom(c) == c.op = "render_atom_to_commands"
IsRenderEntry(c) == c.op = "render_entry_commands"

\* the arguments each kind of atom requires
RequiredArgs(name) ==
    CASE name \in {"pip_pin", "pip_install"} -> {"name"}
      [] name = "set_pytest_flag" -> {"name", "value"}
      [] name = "set_env" -> {"key", "value"}
      [] name = "set_umask" -> {"value"}
      [] name = "set_django_setting" -> {"key"}
      [] name = "or_upgrade_pkg" -> {"name", "min_version"}
      [] OTHER -> {}

\* the required arguments that must not be empty either
NonEmptyArgs(name) ==
    CASE name = "set_pytest_flag" -> {"name"}
      [] name \in {"set_env", "set_django_setting"} -> {"key"}
      [] name = "or_upgrade_pkg" -> {"name", "min_version"}
      [] OTHER -> {}

Recognized(name) == RequiredArgs(name) # {}

\* the atom gives no value, or a null, for the argument
ArgMissing(atom, key) ==
    \/ atom.args = ARGS_NONE
    \/ key \notin DOMAIN atom.args
    \/ atom.args[key] = None

ArgEmpty(atom, key) == ~ArgMissing(atom, key) /\ atom.args[key] = ""

\* where the commands of the i-th atom start in the entry's commands
RECURSIVE Offset(_, _)
Offset(atoms, i) ==
    IF i = 1 THEN 0
    ELSE Offset(atoms, i - 1) + Len(render_atom_to_commands(atoms[i - 1]))

IsConcatenation(c) ==
    LET atoms == c.entry.atoms
    IN  /\ Len(c.ret) = Offset(atoms, Len(atoms) + 1)
        /\ \A i \in 1..Len(atoms) :
               \A j \in 1..Len(render_atom_to_commands(atoms[i])) :
                   c.ret[Offset(atoms, i) + j]
                       = render_atom_to_commands(atoms[i])[j]

C22_EmptyIffMissing ==
    /\ IsRenderAtom(call) =>
           /\ call.raised = None
           /\ call.ret = <<>> <=>
                  \/ ~Recognized(call.atom.name)
                  \/ \E key \in RequiredArgs(call.atom.name) :
                         ArgMissing(call.atom, key)
    /\ IsRenderEntry(call) => call.raised = None /\ IsConcatenation(call)

C22_EmptyIffMissingOrEmpty ==
    /\ IsRenderAtom(call) =>
           /\ call.raised = None
           /\ call.ret = <<>> <=>
                  \/ ~Recognized(call.atom.name)
                  \/ \E key \in RequiredArgs(call.atom.name) :
                         ArgMissing(call.atom, key)
                  \/ \E key \in NonEmptyArgs(call.atom.name) :
                         ArgEmpty(call.atom, key)
    /\ IsRenderEntry(call) => call.raised = None /\ IsConcatenation(call)

\* a set_env atom whose key is the empty string renders no command
C22_EmptyKeyRendersNothing ==
    /\ IsRenderAtom(call)
    /\ call.atom.name = "set_env"
    /\ ArgEmpty(call.atom, "key")
    /\ ~ArgMissing(call.atom, "value")
    /\ call.ret = <<>>

----------------------------------------------------------------------------
(* C23: in retrieve_hints an observation of at most 4000 characters is    *)
(* the query snippet, unchanged; a longer observation becomes exactly its *)
(* first 2000 characters, one truncation marker, then its last 2000       *)
(* characters, the marker occurring once, between the two halves.         *)
(* As the code has it: that holds of the observation with its leading and *)
(* trailing whitespace removed, which is what the code measures and cuts. *)

\* how often the marker occurs in the text
MarkerCount(text) ==
    Cardinality({i \in 0..(Len(text) - Len(TRUNCATED_MARKER)) :
                    SubSeq(text, i + 1, i + Len(TRUNCATED_MARKER))
                        = TRUNCATED_MARKER})

\* snippet is text if text is short, and else the head and the tail of
\* text around one marker
TruncationOf(text, snippet) ==
    IF Len(text) <= 4000 THEN snippet = text
    ELSE /\ Len(snippet) = 4000 + Len(TRUNCATED_MARKER)
         /\ SubSeq(snippet, 1, 2000) = SubSeq(text, 1, 2000)
         /\ SubSeq(snippet, 2001, 2000 + Len(TRUNCATED_MARKER))
                = TRUNCATED_MARKER
         /\ SubSeq(snippet, Len(snippet) - 1999, Len(snippet))
                = SubSeq(text, Len(text) - 1999, Len(text))
         /\ MarkerCount(snippet) = 1

C23_TruncatesObservation ==
    IsRetrieve(call) => TruncationOf(call.sandbox_res, call.log_snippet)

C23_TruncatesStrippedObservation ==
    IsRetrieve(call) =>
        TruncationOf(Strip(call.sandbox_res), call.log_snippet)

\* a call whose observation of more than 4000 characters has whitespace
\* around it was cut, searched with, and its snippet kept as the memo
C23_LongPaddedObservationCut ==
    /\ IsRetrieve(call)
    /\ call.stage = "selected"
    /\ Len(Strip(call.sandbox_res)) = 10000
    /\ Len(call.sandbox_res) > 10000
    /\ Len(call.log_snippet) = 4000 + Len(TRUNCATED_MARKER)
    /\ last_query = Memo(call.log_snippet)

----------------------------------------------------------------------------
(* C24: retrieve_hints makes the query (it calls the embedding service,   *)
(* and the store search with the vector the service returns) if and only  *)
(* if a store is configured, the prepared snippet is not empty, the       *)
(* snippet contains one of the fixed error keywords, whatever the case of *)
(* its letters, and the snippet differs from the last-query memo.  A call *)
(* that skips the query returns ("", []) and changes neither the memo,    *)
(* nor the session-used set, nor a telemetry counter.                     *)

\* the stages of retrieve_hints in which it called the embedding service,
\* and in which it called the store search with the vector
EmbeddingCalled(stage) == stage # "skipped"
SearchCalled(stage) ==
    stage \in {"search_failed", "no_results", "selected", "telemetry_failed"}

HasErrorKeyword(snippet) ==
    \E i \in 1..Len(snippet), kw \in XPU_ERROR_KEYWORDS :
        /\ i + Len(kw) - 1 <= Len(snippet)
        /\ \A j \in 1..Len(kw) : Lower(snippet[i + j - 1]) = kw[j]

\* whether the call about to be made has to query, from the state before
\* (snippet is the stripped and truncated observation of the call)
MustQuery(snippet) ==
    /\ vector_store
    /\ snippet # <<>>
    /\ last_query # Memo(snippet)
    /\ HasErrorKeyword(snippet)

QueriesIffNeeded ==
    IsRetrieve(call') =>
        LET must == MustQuery(call'.log_snippet)
            embedded == EmbeddingCalled(call'.stage)
            searched == SearchCalled(call'.stage)
        IN  /\ embedded <=> must
            /\ searched => embedded
            /\ (must /\ call'.stage # "embedding_failed") => searched
            /\ ~embedded =>
                   /\ call'.ret = EMPTY_RETURN
                   /\ UNCHANGED <<last_query, session_used_ids, xpu_entries>>

C24_QueriesIffNeeded == [][QueriesIffNeeded]_vars

\* a call skipped only because its snippet is the last query
C24_SkippedAsLastQuery ==
    /\ IsRetrieve(call)
    /\ call.stage = "skipped"
    /\ vector_store
    /\ HasErrorKeyword(call.log_snippet)
    /\ last_query = Memo(call.log_snippet)
    /\ session_used_ids # {}

----------------------------------------------------------------------------
(* C25: at every point of a session, session_used_ids holds exactly the   *)
(* ids that the retrieve_hints calls of the handler returned since it was *)
(* created or last finalized: the set is empty at creation, a             *)
(* retrieve_hints call adds the ids it returns and nothing else, and no   *)
(* other call touches it, except that finalize_session, whatever          *)
(* is_task_success is, leaves it empty, and increments no counter.        *)

ReturnedIds(c) == Range(c.ret[2])

UsedIdsTrackReturns ==
    CASE call'.op = "retrieve_hints" ->
            session_used_ids' = session_used_ids \cup ReturnedIds(call')
      [] call'.op = "finalize_session" ->
            session_used_ids' = {} /\ xpu_entries' = xpu_entries
      [] OTHER -> session_used_ids' = session_used_ids

C25_SessionUsedIds ==
    /\ [](call.op = "init" => session_used_ids = {})
    /\ [][UsedIdsTrackReturns]_vars

\* a call returned one id, and the set holds it and an id of an earlier call
C25_SetAccumulates ==
    /\ IsRetrieve(call)
    /\ call.stage = "selected"
    /\ Cardinality(ReturnedIds(call)) = 1
    /\ Cardinality(session_used_ids) = 2

----------------------------------------------------------------------------
(* C26: in the per-turn protocol an unchanged error is never counted as   *)
(* resolved: if the observation of a turn is identical to the observation *)
(* of the turn before it, on which entry X was surfaced, then the turn    *)
(* does not increment successes of X.                                     *)

IsTurn(c) == c.op = "turn"

UnchangedErrorNotResolved ==
    (/\ IsTurn(call) /\ IsTurn(call')
     /\ call'.sandbox_res = call.sandbox_res)
    => \A x \in Range(call.ret[2]) :
           CounterOf(xpu_entries', x, "successes")
               = CounterOf(xpu_entries, x, "successes")

C26_UnchangedErrorNotResolved == [][UnchangedErrorNotResolved]_vars

\* the same on a table without a telemetry column, where no counter is
\* incremented at all
C26_UnchangedErrorNoColumn ==
    [][~telemetry_column => UnchangedErrorNotResolved]_vars

----------------------------------------------------------------------------
(* C27: a retrieve_hints call that returns ("", []) leaves the last-query *)
(* memo, the session-used set and every telemetry counter as they were    *)
(* before the call; and a call increments hits only of ids it returns.    *)

HitsOnlyOfReturned(c) ==
    \A id \in Ids :
        CounterOf(xpu_entries', id, "hits") # CounterOf(xpu_entries, id, "hits")
            => id \in ReturnedIds(c)

EmptyReturnFrame ==
    IsRetrieve(call') =>
        /\ call'.ret = EMPTY_RETURN =>
               UNCHANGED <<last_query, session_used_ids, xpu_entries>>
        /\ HitsOnlyOfReturned(call')

C27_EmptyReturnFrame == [][EmptyReturnFrame]_vars

\* the same for the calls in which the store hands out a connection for
\* the hits increment
C27_EmptyReturnFrameStoreReachable ==
    [][(IsRetrieve(call') /\ call'.stage # "telemetry_failed")
           => EmptyReturnFrame]_vars

----------------------------------------------------------------------------
(* C28: no pool handle is leaked.  Every store operation that took a      *)
(* handle gives it back on every way out, normal or exceptional: the      *)
(* handles checked out are exactly those of the operations in flight, so  *)
(* with no operation in flight none is checked out, and an operation that *)
(* failed leaves the pool as large for later callers as it was.  (The     *)
(* schema creation of the constructor has given its handle back before    *)
(* the first call.)                                                       *)

\* the threads inside a store method, between _get_conn and _put_conn
HoldingHandle == {s \in Sessions : pc[s] \in {"acquired", "executed", "finally"}}

C28_NoHandleLeaked ==
    /\ pool_used = HoldingHandle
    /\ Quiescent => pool_used = {}

\* a read and an upsert have failed, and every handle is back in the pool
C28_FailedCallsReturnedHandles ==
    /\ Quiescent
    /\ \E s, t \in Sessions :
           /\ op[s].name = "upsert_entry" /\ op[s].raised = "DatabaseError"
           /\ op[t].name \in {"search", "get_entry"}
           /\ op[t].raised = "DatabaseError"
    /\ pool_used = {}

----------------------------------------------------------------------------
(* C29: the pair retrieve_hints returns is consistent.  The block is the  *)
(* empty string if and only if the id list is empty.  A non-empty id list *)
(* has at most 3 ids, none twice, in the order of the results of the      *)
(* store search, which is descending similarity.  The block starts with   *)
(* the header line and holds one group per returned id, in the same       *)
(* order, each with the id of the entry, its advice lines and its         *)
(* rendered commands.  render_candidates_block of no entry is the empty   *)
(* string.  (call.results are the rows the store search returned.)        *)

HEADER_LINE == <<"Candidate Fixes from XPU (choose only what you need):">>

IsFixLine(line) == Len(line) = 3 /\ line[1] = "- Fix (id=" /\ line[3] = "):"

\* the places of the lines of the block that open a group
FixLines(block) == {n \in 1..Len(block) : IsFixLine(block[n])}

\* the place of the line that opens the i-th group
FixLineAt(block, i) ==
    CHOOSE n \in FixLines(block) :
        Cardinality({m \in FixLines(block) : m < n}) = i - 1

\* the lines of the i-th group after the line that opens it
GroupBody(block, i) ==
    SubSeq(block, FixLineAt(block, i) + 1,
           IF i < Cardinality(FixLines(block))
           THEN FixLineAt(block, i + 1) - 1 ELSE Len(block))

\* the advice lines and the commands that a group shows for a stored row
AdviceAndCommands(row) ==
    LET cmds == render_entry_commands([atoms |-> row.atoms])
    IN  (IF row.advice_nl = <<>> THEN <<>>
         ELSE << <<"  Advice:">> >>
              \o [n \in 1..Len(row.advice_nl) |-> <<"    - ", row.advice_nl[n]>>])
        \o (IF cmds = <<>> THEN <<>>
            ELSE << <<"  Bash snippet:">> >>
                 \o [n \in 1..Len(cmds) |-> <<"    ", cmds[n]>>])

PairConsistent(c) ==
    LET block == c.ret[1]
        ids == c.ret[2]
    IN  /\ block = <<>> <=> ids = <<>>
        /\ Len(ids) <= 3
        /\ Injective(ids)
        /\ ids # <<>> =>
               /\ ids = [i \in 1..Len(c.results) |-> c.results[i].id]
               /\ \A i, j \in 1..Len(c.results) :
                      i < j => c.results[i].similarity >= c.results[j].similarity
               /\ block[1] = HEADER_LINE
               /\ FixLines(block) # {} /\ FixLineAt(block, 1) = 2
               /\ Cardinality(FixLines(block)) = Len(ids)
               /\ \A i \in 1..Len(ids) :
                      /\ block[FixLineAt(block, i)][2] = ids[i]
                      /\ GroupBody(block, i)
                             = AdviceAndCommands(RowOf(xpu_entries, ids[i]))

----------------------------------------------------------------------------
(* C30: get_llm_response retries with a bound and always returns.  It     *)
(* sends at most max_retry + 1 = 6 requests; a successful response is     *)
(* returned at once, so it is always the last request; when every request *)
(* fails the call returns ([None], zero token usage); with a missing or   *)
(* empty key or base url it returns that pair without sending a request;  *)
(* and every call eventually returns.                                     *)

Returned == call.at = "returned"

CredentialsMissing == Falsy(call.key) \/ Falsy(call.base_url)

Succeeded(n) == call.requests[n].kind = "ok"

BoundedRetries ==
    /\ Len(call.requests) <= max_retry + 1
    /\ Len(call.requests) <= call.count + 1
    /\ call.count <= max_retry + 1
    /\ \A n \in 1..Len(call.requests) :
           Succeeded(n) =>
               /\ n = Len(call.requests)
               /\ Returned
               /\ call.ret = Completion(call.requests[n])
    /\ (Returned /\ \A n \in 1..Len(call.requests) : ~Succeeded(n)) =>
           call.ret = EMPTY_RESULT
    /\ (Returned /\ ~CredentialsMissing /\ call.requests # <<>>
        /\ \A n \in 1..Len(call.requests) : ~Succeeded(n)) =>
           Len(call.requests) = max_retry + 1
    /\ CredentialsMissing => call.requests = <<>>

C30_BoundedRetries == []BoundedRetries /\ <>Returned

\* six requests failed and the call returned the empty result
C30_GaveUpAfterSixRequests ==
    /\ Returned
    /\ Len(call.requests) = 6
    /\ \A n \in 1..6 : ~Succeeded(n)
    /\ call.ret = EMPTY_RESULT


====
